---- MODULE Spec2Model ----
(***************************************************************************)
(* Data engineering layer of the CA/AZ performance dashboard               *)
(* (src/dashboard/data_engineering.py): location resolution, record        *)
(* normalisation, the always-visible skeleton join and the trend engine.   *)
(*                                                                         *)
(* Python values are tagged records: None, numbers, booleans and strings;  *)
(* a string is the sequence of its characters, so that slicing, splitting, *)
(* case conversion and parsing are computed and not assumed.  A raw API    *)
(* object is a function from the keys it carries to values, so that an     *)
(* absent key and a null value stay different things.                      *)
(***************************************************************************)
EXTENDS Integers, Sequences, FiniteSets, TLC

VARIABLES
    pc,               \* position of the run: "input", then one label per stage applied
    load,             \* one raw API load object (location resolver, BCO mapping)
    pickup,           \* result of resolve_pickup_city(load)
    delivery,         \* result of resolve_delivery_city(load)
    bco,              \* result of derive_bco(load)
    raw_loads,        \* the list handed to flatten_loads
    records,          \* the rows flatten_loads returns
    load_df,          \* normalized loads handed to _skeleton_join
    customer_master,  \* the entity master handed to _skeleton_join
    period_col,       \* "week_start" or "month_start"
    merged,           \* the table _skeleton_join returns
    df,               \* the table _add_wow_and_flags returns, run-rate columns included
    again,            \* the table of a second application of _add_wow_and_flags
    today,            \* datetime.now() as _add_run_rate read it
    selected_week,    \* the week handed to compute_risk_flags and compute_lane_risks
    risks,            \* the table compute_risk_flags returns
    lane_risks,       \* the table compute_lane_risks returns
    data,             \* the dict of tables transform_loads returns
    access_token,     \* PortProClient.access_token
    refresh_token,    \* PortProClient.refresh_token
    authorization,    \* the Authorization header of the client's session
    config_file,      \* the content of .env.json, NoFile when there is none
    server,           \* what the API holds: its loads, its page cap, its customers
    call,             \* the arguments of the running _request and the tokens on entry
    sent,             \* the HTTP exchanges of the running _request, in order
    page_size,        \* get_all_loads: its argument
    skip,             \* get_all_loads: its offset
    all_loads,        \* get_all_loads: the loads accumulated
    pages,            \* get_all_loads: the get_loads calls made, in order
    raw_customers     \* the list get_customers returns

vars == <<pc, load, pickup, delivery, bco, raw_loads, records,
          load_df, customer_master, period_col, merged, df,
          again, today, selected_week, risks, lane_risks, data,
          access_token, refresh_token, authorization, config_file, server,
          call, sent, page_size, skip, all_loads, pages, raw_customers>>

-----------------------------------------------------------------------------
(* Python values *)

None == [t |-> "none"]
Num(n) == [t |-> "num", v |-> n]
Bool(b) == [t |-> "bool", v |-> b]
Str(s) == [t |-> "str", v |-> s]
Dict(d) == [t |-> "dict", v |-> d]
List(l) == [t |-> "list", v |-> l]

\* bool(x)
Truthy(x) ==
    CASE x.t = "none" -> FALSE
      [] x.t = "num" -> x.v # 0
      [] x.t = "bool" -> x.v
      [] x.t = "str" -> x.v # <<>>
      [] x.t = "list" -> x.v # <<>>
      [] x.t = "dict" -> DOMAIN x.v # {}
      [] OTHER -> TRUE

\* a or b
Or(a, b) == IF Truthy(a) THEN a ELSE b

\* d.get(k, default)
Get(d, k, default) == IF k \in DOMAIN d THEN d[k] ELSE default

\* str(x) for the values a name or reference field can hold
PyStr(x) ==
    CASE x.t = "str" -> x.v
      [] x.t = "none" -> <<"N", "o", "n", "e">>
      [] OTHER -> <<>>

-----------------------------------------------------------------------------
(* Characters and strings *)

UpperLetters ==
    <<"A", "B", "C", "D", "E", "F", "G", "H", "I", "J", "K", "L", "M",
      "N", "O", "P", "Q", "R", "S", "T", "U", "V", "W", "X", "Y", "Z">>

LowerLetters ==
    <<"a", "b", "c", "d", "e", "f", "g", "h", "i", "j", "k", "l", "m",
      "n", "o", "p", "q", "r", "s", "t", "u", "v", "w", "x", "y", "z">>

DigitChars == <<"0", "1", "2", "3", "4", "5", "6", "7", "8", "9">>

Range(f) == {f[i] : i \in DOMAIN f}

IsUpper(c) == c \in Range(UpperLetters)
IsLower(c) == c \in Range(LowerLetters)
IsLetter(c) == IsUpper(c) \/ IsLower(c)
IsDigit(c) == c \in Range(DigitChars)
IsSpace(c) == c = " "

IndexIn(c, seq) == CHOOSE i \in DOMAIN seq : seq[i] = c
DigitVal(c) == IndexIn(c, DigitChars) - 1

UpperChar(c) == IF IsLower(c) THEN UpperLetters[IndexIn(c, LowerLetters)] ELSE c
LowerChar(c) == IF IsUpper(c) THEN LowerLetters[IndexIn(c, UpperLetters)] ELSE c

\* s.upper()
Upper(s) == [i \in DOMAIN s |-> UpperChar(s[i])]

\* s.title(): a letter is upper-cased unless the character before it is a letter
Title(s) ==
    [i \in DOMAIN s |->
        IF i > 1 /\ IsLetter(s[i - 1]) THEN LowerChar(s[i]) ELSE UpperChar(s[i])]

\* s[:n]
Prefix(s, n) == SubSeq(s, 1, IF Len(s) < n THEN Len(s) ELSE n)

\* s.strip()
Strip(s) ==
    LET keep == {i \in DOMAIN s : ~IsSpace(s[i])}
    IN  IF keep = {} THEN <<>>
        ELSE SubSeq(s, CHOOSE i \in keep : \A j \in keep : i <= j,
                       CHOOSE i \in keep : \A j \in keep : j <= i)

\* sub occurs in s at position i
OccursAt(sub, s, i) ==
    /\ i >= 1
    /\ i + Len(sub) - 1 <= Len(s)
    /\ SubSeq(s, i, i + Len(sub) - 1) = sub

\* sub in s
Contains(sub, s) == \E i \in 1..Len(s) : OccursAt(sub, s, i)

\* s.split(sub, 1)[1], for a string that contains sub
AfterFirst(sub, s) ==
    LET i == CHOOSE k \in 1..Len(s) :
                 OccursAt(sub, s, k) /\ \A j \in 1..(k - 1) : ~OccursAt(sub, s, j)
    IN  SubSeq(s, i + Len(sub), Len(s))

\* s.split(","): the fields between the commas, in order
RECURSIVE SplitComma(_)
SplitComma(s) ==
    IF \A i \in DOMAIN s : s[i] # ","
    THEN <<s>>
    ELSE LET i == CHOOSE k \in DOMAIN s : s[k] = "," /\ \A j \in 1..(k - 1) : s[j] # ","
         IN  <<SubSeq(s, 1, i - 1)>> \o SplitComma(SubSeq(s, i + 1, Len(s)))

-----------------------------------------------------------------------------
(* 1. Address parsing *)

TERMINAL_CITY_MAP ==
    (<<"I", "T", "S", " ", "L", "O", "N", "G", " ", "B", "E", "A", "C", "H">> :> <<<<"L", "o", "n", "g", " ", "B", "e", "a", "c", "h">>, <<"C", "A">>>>)
    @@ (<<"T", "T", "I">> :> <<<<"L", "o", "n", "g", " ", "B", "e", "a", "c", "h">>, <<"C", "A">>>>)
    @@ (<<"T", "R", "A", "P", "A", "C", " ", "W", "I", "L", "M", "I", "N", "G", "T", "O", "N">> :> <<<<"W", "i", "l", "m", "i", "n", "g", "t", "o", "n">>, <<"C", "A">>>>)
    @@ (<<"L", "B", "C", "T">> :> <<<<"L", "o", "n", "g", " ", "B", "e", "a", "c", "h">>, <<"C", "A">>>>)
    @@ (<<"W", "B", "C", "T">> :> <<<<"L", "o", "n", "g", " ", "B", "e", "a", "c", "h">>, <<"C", "A">>>>)
    @@ (<<"A", "P", "M", " ", "L", "O", "S", " ", "A", "N", "G", "E", "L", "E", "S">> :> <<<<"L", "o", "s", " ", "A", "n", "g", "e", "l", "e", "s">>, <<"C", "A">>>>)
    @@ (<<"F", "E", "N", "I", "X">> :> <<<<"T", "e", "r", "m", "i", "n", "a", "l", " ", "I", "s", "l", "a", "n", "d">>, <<"C", "A">>>>)
    @@ (<<"Y", "T", "I">> :> <<<<"L", "o", "n", "g", " ", "B", "e", "a", "c", "h">>, <<"C", "A">>>>)
    @@ (<<"E", "V", "E", "R", "P", "O", "R", "T", " ", "T", "E", "R", "M", "I", "N", "A", "L", " ", "I", "S", "L", "A", "N", "D">> :> <<<<"T", "e", "r", "m", "i", "n", "a", "l", " ", "I", "s", "l", "a", "n", "d">>, <<"C", "A">>>>)
    @@ (<<"P", "I", "E", "R", " ", "A">> :> <<<<"L", "o", "n", "g", " ", "B", "e", "a", "c", "h">>, <<"C", "A">>>>)
    @@ (<<"M", "A", "T", "S", "O", "N">> :> <<<<"L", "o", "n", "g", " ", "B", "e", "a", "c", "h">>, <<"C", "A">>>>)
    @@ (<<"O", "O", "C", "L">> :> <<<<"L", "o", "n", "g", " ", "B", "e", "a", "c", "h">>, <<"C", "A">>>>)
    @@ (<<"S", "S", "A">> :> <<<<"L", "o", "n", "g", " ", "B", "e", "a", "c", "h">>, <<"C", "A">>>>)
    @@ (<<"I", "T", "S", " ", "C", "A", "R", "S", "O", "N">> :> <<<<"C", "a", "r", "s", "o", "n">>, <<"C", "A">>>>)
    @@ (<<"S", "H", "I", "P", "P", "E", "R", "S", " ", "T", "R", "A", "N", "S", "P", "O", "R", "T", " ", "C", "A", "R", "S", "O", "N">> :> <<<<"C", "a", "r", "s", "o", "n">>, <<"C", "A">>>>)
    @@ (<<"O", "D", "W", " ", "L", "O", "G", "I", "S", "T", "I", "C", "S">> :> <<<<"L", "o", "n", "g", " ", "B", "e", "a", "c", "h">>, <<"C", "A">>>>)
    @@ (<<"B", "N", "S", "F", " ", "S", "A", "N", " ", "B", "E", "R", "N", "A", "R", "D", "I", "N", "O">> :> <<<<"S", "a", "n", " ", "B", "e", "r", "n", "a", "r", "d", "i", "n", "o">>, <<"C", "A">>>>)

US_STATES ==
    { <<"A", "K">>, <<"A", "L">>, <<"A", "R">>, <<"A", "Z">>, <<"C", "A">>,
      <<"C", "O">>, <<"C", "T">>, <<"D", "E">>, <<"F", "L">>, <<"G", "A">>,
      <<"H", "I">>, <<"I", "A">>, <<"I", "D">>, <<"I", "L">>, <<"I", "N">>,
      <<"K", "S">>, <<"K", "Y">>, <<"L", "A">>, <<"M", "A">>, <<"M", "D">>,
      <<"M", "E">>, <<"M", "I">>, <<"M", "N">>, <<"M", "O">>, <<"M", "S">>,
      <<"M", "T">>, <<"N", "C">>, <<"N", "D">>, <<"N", "E">>, <<"N", "H">>,
      <<"N", "J">>, <<"N", "M">>, <<"N", "V">>, <<"N", "Y">>, <<"O", "H">>,
      <<"O", "K">>, <<"O", "R">>, <<"P", "A">>, <<"R", "I">>, <<"S", "C">>,
      <<"S", "D">>, <<"T", "N">>, <<"T", "X">>, <<"U", "T">>, <<"V", "A">>,
      <<"V", "T">>, <<"W", "A">>, <<"W", "I">>, <<"W", "V">>, <<"W", "Y">> }

\* string literals of the source
LitUnknown == <<"U", "n", "k", "n", "o", "w", "n">>
LitNoState == <<"?", "?">>
LitCA == <<"C", "A">>
LitSep == <<" ", "-", " ">>
LitImport == <<"I", "M", "P", "O", "R", "T">>
LitRoad == <<"R", "O", "A", "D">>
LitMarkM == <<"_", "M">>
LitMarkR == <<"_", "R">>
LitUnknownBco == <<"U", "n", "k", "n", "o", "w", "n", " ", "B", "C", "O">>
LitDirect == <<"D", "i", "r", "e", "c", "t">>
LitHold == <<"H", "O", "L", "D">>
LitUncontrollable ==
    <<"U", "n", "c", "o", "n", "t", "r", "o", "l", "l", "a", "b", "l", "e",
      " ", "E", "v", "e", "n", "t">>

\* re.match(r"^([A-Z]{2})\s+\d{5}", part): two capitals, white space, five digits
StateZipMatch(part) ==
    /\ Len(part) >= 8
    /\ IsUpper(part[1])
    /\ IsUpper(part[2])
    /\ \E k \in 1..(Len(part) - 7) :
          /\ \A j \in 3..(2 + k) : IsSpace(part[j])
          /\ \A j \in (3 + k)..(7 + k) : IsDigit(part[j])

parse_city_state_from_address(address_str) ==
    IF ~Truthy(address_str)
    THEN <<LitUnknown, LitNoState>>
    ELSE LET raw == SplitComma(PyStr(address_str))
             parts == [i \in DOMAIN raw |-> Strip(raw[i])]
             hits == {i \in DOMAIN parts :
                         /\ StateZipMatch(parts[i])
                         /\ SubSeq(parts[i], 1, 2) \in US_STATES
                         /\ i > 1}
         IN  IF hits = {}
             THEN <<LitUnknown, LitNoState>>
             ELSE LET i == CHOOSE h \in hits : \A g \in hits : h <= g
                  IN  <<Title(Strip(parts[i - 1])), SubSeq(parts[i], 1, 2)>>

\* resolve_pickup_city ending in the sentinel of parse_city_state_from_address
resolve_pickup_city_same_sentinel(ld) ==
    LET cs == parse_city_state_from_address(Get(ld, "shipperAddress", Str(<<>>)))
        shipper_name == Strip(Upper(PyStr(Get(ld, "shipperName", Str(<<>>)))))
    IN  IF cs[1] # LitUnknown THEN cs
        ELSE IF shipper_name \in DOMAIN TERMINAL_CITY_MAP
             THEN TERMINAL_CITY_MAP[shipper_name]
        ELSE IF Contains(LitSep, shipper_name)
             THEN <<Title(Strip(AfterFirst(LitSep, shipper_name))), LitCA>>
        ELSE <<LitUnknown, LitNoState>>

resolve_pickup_city(ld) ==
    LET cs == parse_city_state_from_address(Get(ld, "shipperAddress", Str(<<>>)))
        shipper_name == Strip(Upper(PyStr(Get(ld, "shipperName", Str(<<>>)))))
    IN  IF cs[1] # LitUnknown THEN cs
        ELSE IF shipper_name \in DOMAIN TERMINAL_CITY_MAP
             THEN TERMINAL_CITY_MAP[shipper_name]
        ELSE IF Contains(LitSep, shipper_name)
             THEN <<Title(Strip(AfterFirst(LitSep, shipper_name))), LitCA>>
        ELSE <<LitUnknown, LitCA>>

\* resolve_delivery_city consulting the terminal table as resolve_pickup_city does
resolve_delivery_city_table(ld) ==
    LET cs == parse_city_state_from_address(Get(ld, "consigneeAddress", Str(<<>>)))
        consignee_name == Strip(Upper(PyStr(Get(ld, "consigneeName", Str(<<>>)))))
    IN  IF cs[1] # LitUnknown THEN cs
        ELSE IF consignee_name \in DOMAIN TERMINAL_CITY_MAP
             THEN TERMINAL_CITY_MAP[consignee_name]
        ELSE IF Contains(LitSep, consignee_name)
             THEN <<Title(Strip(AfterFirst(LitSep, consignee_name))), LitCA>>
        ELSE <<LitUnknown, LitNoState>>

resolve_delivery_city(ld) ==
    LET cs == parse_city_state_from_address(Get(ld, "consigneeAddress", Str(<<>>)))
        consignee_name == Strip(Upper(PyStr(Get(ld, "consigneeName", Str(<<>>)))))
    IN  IF cs[1] # LitUnknown THEN cs
        ELSE IF Contains(LitSep, consignee_name)
             THEN <<Title(Strip(AfterFirst(LitSep, consignee_name))), LitCA>>
        ELSE <<LitUnknown, LitNoState>>

-----------------------------------------------------------------------------
(* 2. BCO mapping and exception classification *)

\* derive_bco with the road test ahead of the import test
derive_bco_road_first(ld) ==
    LET ref == PyStr(Get(ld, "reference_number", Str(<<>>)))
        load_type == Get(ld, "type_of_load", Str(<<>>))
    IN  IF load_type = Str(LitRoad) \/ Contains(LitMarkR, ref)
        THEN Or(Get(ld, "shipperName", Str(<<>>)), Str(LitUnknownBco))
        ELSE IF load_type = Str(LitImport) \/ Contains(LitMarkM, ref)
        THEN Or(Get(ld, "consigneeName", Str(<<>>)), Str(LitUnknownBco))
        ELSE Str(LitDirect)

derive_bco(ld) ==
    LET ref == PyStr(Get(ld, "reference_number", Str(<<>>)))
        load_type == Get(ld, "type_of_load", Str(<<>>))
    IN  IF load_type = Str(LitImport) \/ Contains(LitMarkM, ref)
        THEN Or(Get(ld, "consigneeName", Str(<<>>)), Str(LitUnknownBco))
        ELSE IF load_type = Str(LitRoad) \/ Contains(LitMarkR, ref)
        THEN Or(Get(ld, "shipperName", Str(<<>>)), Str(LitUnknownBco))
        ELSE Str(LitDirect)

classify_exception(ld) ==
    IF \/ Truthy(Get(ld, "terminalHold", Bool(FALSE)))
       \/ Upper(PyStr(Get(ld, "custom", Str(<<>>)))) = LitHold
    THEN LitUncontrollable
    ELSE <<>>

-----------------------------------------------------------------------------
(* Calendar arithmetic of datetime: strptime("%Y-%m-%d"), weekday(),        *)
(* subtraction of whole days, strftime.  A date is [y, m, d].               *)

IsLeap(y) == y % 4 = 0 /\ (y % 100 # 0 \/ y % 400 = 0)

DaysInMonth(y, m) ==
    IF m = 2 THEN (IF IsLeap(y) THEN 29 ELSE 28)
    ELSE IF m \in {4, 6, 9, 11} THEN 30 ELSE 31

DaysBeforeYear(y) ==
    LET p == y - 1 IN p * 365 + (p \div 4) - (p \div 100) + (p \div 400)

DaysBeforeMonth(y, m) ==
    <<0, 31, 59, 90, 120, 151, 181, 212, 243, 273, 304, 334>>[m]
        + (IF m > 2 /\ IsLeap(y) THEN 1 ELSE 0)

\* date.toordinal(): 0001-01-01 is day 1
ToOrdinal(dt) == DaysBeforeYear(dt.y) + DaysBeforeMonth(dt.y, dt.m) + dt.d

\* a weekday numbered from Sunday
Weekday_from_sunday(dt) == ToOrdinal(dt) % 7

\* date.weekday(): Monday is 0
Weekday(dt) == (ToOrdinal(dt) + 6) % 7

PrevDay(dt) ==
    IF dt.d > 1 THEN [dt EXCEPT !.d = dt.d - 1]
    ELSE IF dt.m > 1 THEN [y |-> dt.y, m |-> dt.m - 1, d |-> DaysInMonth(dt.y, dt.m - 1)]
    ELSE [y |-> dt.y - 1, m |-> 12, d |-> 31]

\* dt - timedelta(days=n)
RECURSIVE MinusDays(_, _)
MinusDays(dt, n) == IF n = 0 THEN dt ELSE MinusDays(PrevDay(dt), n - 1)

NoDate == [ok |-> FALSE, y |-> 0, m |-> 0, d |-> 0]

\* datetime.strptime(s, "%Y-%m-%d"): the pattern
\*   (\d\d\d\d)-(1[0-2]|0[1-9]|[1-9])-(3[0-1]|[1-2]\d|0[1-9]|[1-9]| [1-9])
\* must match from the start and leave nothing unconverted, and the fields
\* must name a day of the calendar; anything else is a ValueError (NoDate).
Strptime(s) ==
    LET n == Len(s)
        yearOk == n >= 5 /\ (\A i \in 1..4 : IsDigit(s[i])) /\ s[5] = "-"
        year == DigitVal(s[1]) * 1000 + DigitVal(s[2]) * 100
                    + DigitVal(s[3]) * 10 + DigitVal(s[4])
        m2 == /\ n >= 7
              /\ \/ s[6] = "1" /\ s[7] \in {"0", "1", "2"}
                 \/ s[6] = "0" /\ IsDigit(s[7]) /\ s[7] # "0"
        m1 == n >= 6 /\ IsDigit(s[6]) /\ s[6] # "0"
        \* a two-digit month is tried first; a one-digit month is the fallback
        \* when the "-" does not follow the two digits
        mlen == IF m2 /\ n >= 8 /\ s[8] = "-" THEN 2 ELSE 1
        monthOk == IF mlen = 2 THEN TRUE ELSE m1 /\ n >= 7 /\ s[7] = "-"
        month == IF mlen = 2 THEN DigitVal(s[6]) * 10 + DigitVal(s[7]) ELSE DigitVal(s[6])
        q == 6 + mlen + 1
        d2 == /\ n >= q + 1
              /\ \/ s[q] = "3" /\ s[q + 1] \in {"0", "1"}
                 \/ s[q] \in {"1", "2"} /\ IsDigit(s[q + 1])
                 \/ s[q] = "0" /\ IsDigit(s[q + 1]) /\ s[q + 1] # "0"
        d1 == n >= q /\ IsDigit(s[q]) /\ s[q] # "0"
        dsp == n >= q + 1 /\ s[q] = " " /\ IsDigit(s[q + 1]) /\ s[q + 1] # "0"
        dlen == IF d2 THEN 2 ELSE IF d1 THEN 1 ELSE 2
        dayOk == (d2 \/ d1 \/ dsp) /\ q + dlen - 1 = n
        day == IF d2 THEN DigitVal(s[q]) * 10 + DigitVal(s[q + 1])
               ELSE IF d1 THEN DigitVal(s[q]) ELSE DigitVal(s[q + 1])
    IN  IF yearOk /\ monthOk /\ dayOk /\ year >= 1 /\ day <= DaysInMonth(year, month)
        THEN [ok |-> TRUE, y |-> year, m |-> month, d |-> day]
        ELSE NoDate

Fmt2(n) == <<DigitChars[((n \div 10) % 10) + 1], DigitChars[(n % 10) + 1]>>
Fmt4(n) == Fmt2(n \div 100) \o Fmt2(n % 100)

\* dt.strftime("%Y-%m-%d"), for years of four digits
StrftimeYmd(dt) == Fmt4(dt.y) \o <<"-">> \o Fmt2(dt.m) \o <<"-">> \o Fmt2(dt.d)

\* dt.strftime("%Y-%m-01")
StrftimeMonth(dt) == Fmt4(dt.y) \o <<"-">> \o Fmt2(dt.m) \o <<"-", "0", "1">>

-----------------------------------------------------------------------------
(* 3. Flatten raw API loads *)

\* float(x) of a number
Float(x) == x.v

\* ", " and " -> " of the lane f-string; "->" stands for the one character U+2192
LitCommaSp == <<",", " ">>
LitArrow == <<" ", "->", " ">>

RECURSIVE SumFinalAmounts(_)
SumFinalAmounts(items) ==
    IF items = <<>> THEN 0
    ELSE Float(Get(Head(items).v, "finalAmount", Num(0))) + SumFinalAmounts(Tail(items))

\* revenue rolled up from the itemized charges when the load carries them
total_revenue_itemized(ld) ==
    LET pricing == Get(ld, "pricing", None)
    IN  IF pricing.t = "list" THEN SumFinalAmounts(pricing.v)
        ELSE Float(Or(Get(ld, "totalAmount", Num(0)), Num(0)))

\* total_revenue = float(load.get("totalAmount", 0) or 0)
total_revenue(ld) == Float(Or(Get(ld, "totalAmount", Num(0)), Num(0)))

\* the record of a load taken for late at the delivery
FlatRecord_late(ld, completed_date, dt) ==
    LET p == resolve_pickup_city(ld)
        c == resolve_delivery_city(ld)
        caller == Get(ld, "caller", None)
    IN  [ load_id |-> Get(ld, "reference_number", Str(<<>>)),
          customer_name |-> Get(ld, "callerName", Str(LitUnknown)),
          customer_id |-> IF caller.t = "dict"
                          THEN Get(caller.v, "_id", Str(<<>>))
                          ELSE Str(<<>>),
          shipper_name |-> Get(ld, "shipperName", Str(<<>>)),
          consignee_name |-> Get(ld, "consigneeName", Str(<<>>)),
          pickup_city |-> p[1],
          pickup_state |-> p[2],
          delivery_city |-> c[1],
          delivery_state |-> c[2],
          lane |-> p[1] \o LitCommaSp \o p[2] \o LitArrow \o c[1] \o LitCommaSp \o c[2],
          bco_derived |-> derive_bco(ld),
          pricing_total |-> total_revenue(ld),
          total_weight |-> Float(Or(Get(ld, "totalWeight", Num(0)), Num(0))),
          status |-> Get(ld, "status", Str(<<>>)),
          type_of_load |-> Get(ld, "type_of_load", Str(<<>>)),
          completed_date |-> completed_date,
          week_start |-> StrftimeYmd(MinusDays(dt, Weekday(dt))),
          month_start |-> StrftimeMonth(dt),
          container_no |-> Get(ld, "containerNo", Str(<<>>)),
          distance_miles |-> Float(Or(Get(ld, "totalMiles", Num(0)), Num(0))),
          exception_label |-> classify_exception(ld),
          on_time_pickup |-> 1,
          on_time_delivery |-> 0 ]

\* the record flatten_loads appends for a load whose completion date parsed
FlatRecord(ld, completed_date, dt) ==
    LET p == resolve_pickup_city(ld)
        c == resolve_delivery_city(ld)
        caller == Get(ld, "caller", None)
    IN  [ load_id |-> Get(ld, "reference_number", Str(<<>>)),
          customer_name |-> Get(ld, "callerName", Str(LitUnknown)),
          customer_id |-> IF caller.t = "dict"
                          THEN Get(caller.v, "_id", Str(<<>>))
                          ELSE Str(<<>>),
          shipper_name |-> Get(ld, "shipperName", Str(<<>>)),
          consignee_name |-> Get(ld, "consigneeName", Str(<<>>)),
          pickup_city |-> p[1],
          pickup_state |-> p[2],
          delivery_city |-> c[1],
          delivery_state |-> c[2],
          lane |-> p[1] \o LitCommaSp \o p[2] \o LitArrow \o c[1] \o LitCommaSp \o c[2],
          bco_derived |-> derive_bco(ld),
          pricing_total |-> total_revenue(ld),
          total_weight |-> Float(Or(Get(ld, "totalWeight", Num(0)), Num(0))),
          status |-> Get(ld, "status", Str(<<>>)),
          type_of_load |-> Get(ld, "type_of_load", Str(<<>>)),
          completed_date |-> completed_date,
          week_start |-> StrftimeYmd(MinusDays(dt, Weekday(dt))),
          month_start |-> StrftimeMonth(dt),
          container_no |-> Get(ld, "containerNo", Str(<<>>)),
          distance_miles |-> Float(Or(Get(ld, "totalMiles", Num(0)), Num(0))),
          exception_label |-> classify_exception(ld),
          on_time_pickup |-> 1,
          on_time_delivery |-> 1 ]

\* a load whose date does not parse kept with the empty week_start and
\* month_start the loop sets before it parses
FlattenOne_undated(ld) ==
    LET completed_at == Or(Or(Get(ld, "loadCompletedAt", None),
                              Get(ld, "loadCompletedDate", None)), Str(<<>>))
    IN  IF ~Truthy(completed_at) THEN <<>>
        ELSE LET completed_date == Prefix(completed_at.v, 10)
                 dt == Strptime(completed_date)
             IN  IF ~dt.ok
                 THEN <<[FlatRecord(ld, completed_date, [y |-> 2024, m |-> 1, d |-> 1, ok |-> TRUE])
                            EXCEPT !.week_start = <<>>, !.month_start = <<>>]>>
                 ELSE <<FlatRecord(ld, completed_date, dt)>>

\* the rows one load contributes: none when it has no completion timestamp or
\* the first ten characters are not a date
FlattenOne(ld) ==
    LET completed_at == Or(Or(Get(ld, "loadCompletedAt", None),
                              Get(ld, "loadCompletedDate", None)), Str(<<>>))
    IN  IF ~Truthy(completed_at) THEN <<>>
        ELSE LET completed_date == Prefix(completed_at.v, 10)
                 dt == Strptime(completed_date)
             IN  IF ~dt.ok THEN <<>> ELSE <<FlatRecord(ld, completed_date, dt)>>

\* flatten_loads leaving the loop at the first load it cannot use
RECURSIVE flatten_loads_break(_)
flatten_loads_break(raws) ==
    IF raws = <<>> \/ FlattenOne(Head(raws)) = <<>> THEN <<>>
    ELSE FlattenOne(Head(raws)) \o flatten_loads_break(Tail(raws))

RECURSIVE flatten_loads(_)
flatten_loads(raws) ==
    IF raws = <<>> THEN <<>>
    ELSE FlattenOne(Head(raws)) \o flatten_loads(Tail(raws))

-----------------------------------------------------------------------------
(* Inputs.  An API object is built from a record of candidate fields; a     *)
(* field whose candidate is Absent is left out of the object.               *)

Absent == [t |-> "absent"]

Obj(f) == [k \in {x \in DOMAIN f : f[x] # Absent} |-> f[k]]

\* r1 overridden by the fields of r2
Override(r1, r2) ==
    [k \in DOMAIN r1 \cup DOMAIN r2 |-> IF k \in DOMAIN r2 THEN r2[k] ELSE r1[k]]

AddressVals ==
    { Absent, None, Str(<<>>),
      Str(<<"1", "2", " ", "M", "a", "i", "n", " ", "S", "t", ",", " ", "o", "n", "t", "a", "r", "i", "o", ",", " ", "C", "A", " ", "9", "1", "7", "6", "1">>),
      Str(<<"P", "h", "o", "e", "n", "i", "x", ",", " ", "Z", "Z", " ", "8", "5", "0", "0", "1">>),
      Str(<<"u", "n", "k", "n", "o", "w", "n", ",", " ", "C", "A", " ", "9", "0", "0", "0", "1">>) }

NameVals ==
    { Absent, None, Str(<<>>), Str(<<"t", "t", "i">>), Str(<<"P", "o", "r", "t", " ", "-", " ", "p", "i", "e", "r", " ", "j">>), Str(<<"A", "c", "m", "e">>) }

LocLoads ==
    { Obj([shipperAddress |-> a, shipperName |-> n,
           consigneeAddress |-> b, consigneeName |-> m]) :
        a \in AddressVals, n \in NameVals, b \in AddressVals, m \in NameVals }

TypeVals ==
    { Absent, None, Str(LitImport), Str(LitRoad), Str(<<"E", "X", "P", "O", "R", "T">>), Str(<<"i", "m", "p", "o", "r", "t">>) }

RefVals ==
    { Absent, None, Str(<<>>), Str(<<"A", "_", "M", "1">>), Str(<<"A", "_", "R", "1">>), Str(<<"B", "_", "R", "_", "M">>), Str(<<"R", "E", "F", "1">>) }

PartyVals == { Absent, None, Str(<<>>), Str(<<"A", "c", "m", "e">>) }

BcoLoads ==
    { Obj([type_of_load |-> t, reference_number |-> r,
           consigneeName |-> c, shipperName |-> s]) :
        t \in TypeVals, r \in RefVals, c \in PartyVals, s \in PartyVals }

\* completion timestamps: a Monday, a Sunday whose week starts in the month
\* before, a day whose week starts in the year before, days that are not in
\* the calendar, a date written without padding, and text that is no date
CompletedAtVals ==
    { Absent, None, Str(<<>>),
      Str(<<"2", "0", "2", "4", "-", "0", "1", "-", "0", "1", "T", "0", "8", ":", "0", "0", ":", "0", "0", ".", "0", "0", "0", "Z">>),
      Str(<<"2", "0", "2", "4", "-", "0", "3", "-", "0", "3", "T", "2", "3", ":", "5", "9", ":", "5", "9", "Z">>),
      Str(<<"2", "0", "2", "5", "-", "0", "1", "-", "0", "1">>),
      Str(<<"2", "0", "2", "4", "-", "0", "2", "-", "3", "0", "T", "0", "0", ":", "0", "0", ":", "0", "0", "Z">>),
      Str(<<"2", "0", "2", "4", "-", "2", "-", "2", "9">>),
      Str(<<"0", "3", "/", "0", "5", "/", "2", "0", "2", "4", " ", "1", "0", ":", "0", "0">>) }

CompletedDateVals == { Absent, Str(<<"2", "0", "2", "4", "-", "1", "2", "-", "3", "1">>), Str(<<"2", "0", "2", "3", "-", "0", "2", "-", "2", "9">>) }

LoadFields ==
    [ loadCompletedAt |-> Absent, loadCompletedDate |-> Absent,
      reference_number |-> Absent, callerName |-> Absent, caller |-> Absent,
      shipperName |-> Absent, shipperAddress |-> Absent,
      consigneeName |-> Absent, consigneeAddress |-> Absent,
      totalAmount |-> Absent, totalWeight |-> Absent, totalMiles |-> Absent,
      pricing |-> Absent, status |-> Absent, type_of_load |-> Absent,
      containerNo |-> Absent, terminalHold |-> Absent, custom |-> Absent ]

\* the fields other than the completion timestamps, in four variants: nothing
\* but a caller; every field null; an import with amounts and itemized
\* charges that do not add up to the total; a held load with a zero total
DetailVals ==
    { [ callerName |-> Str(<<"A">>), reference_number |-> Str(<<"R", "1">>) ],
      [ callerName |-> None, reference_number |-> None, caller |-> None,
        shipperName |-> None, shipperAddress |-> None,
        consigneeName |-> None, consigneeAddress |-> None,
        totalAmount |-> None, totalWeight |-> None, totalMiles |-> None,
        pricing |-> None, status |-> None, type_of_load |-> None,
        containerNo |-> None, terminalHold |-> None, custom |-> None ],
      [ callerName |-> Str(<<"B">>), reference_number |-> Str(<<"R", "_", "M", "3">>),
        caller |-> Dict([_id |-> Str(<<"c", "9">>)]),
        shipperName |-> Str(<<"T", "T", "I">>),
        consigneeName |-> Str(<<"A", "c", "m", "e">>),
        consigneeAddress |-> Str(<<"1", " ", "E", "l", "m", " ", "S", "t", ",", " ", "f", "o", "n", "t", "a", "n", "a", ",", " ", "C", "A", " ", "9", "2", "3", "3", "5">>),
        totalAmount |-> Num(250), totalWeight |-> Num(40), totalMiles |-> Num(12),
        pricing |-> List(<<Dict([finalAmount |-> Num(100)]),
                           Dict([finalAmount |-> Num(50)])>>),
        status |-> Str(<<"C", "O", "M", "P", "L", "E", "T", "E", "D">>), type_of_load |-> Str(LitImport),
        containerNo |-> Str(<<"M", "S", "C", "U", "1">>) ],
      [ reference_number |-> Str(<<"R", "4">>),
        totalAmount |-> Num(0), totalWeight |-> Num(5),
        pricing |-> List(<<Dict([finalAmount |-> Num(75)])>>),
        terminalHold |-> Bool(TRUE) ] }

DetailPlain == [ callerName |-> Str(<<"A">>), reference_number |-> Str(<<"R", "1">>) ]

RawLoad(at, date, detail) ==
    Obj(Override(Override(LoadFields, detail),
                 [loadCompletedAt |-> at, loadCompletedDate |-> date]))

RawSamples ==
    { RawLoad(at, Absent, DetailPlain) : at \in CompletedAtVals }
    \cup { RawLoad(at, date, DetailPlain) :
             at \in {Absent, None, Str(<<>>), Str(<<"0", "3", "/", "0", "5", "/", "2", "0", "2", "4", " ", "1", "0", ":", "0", "0">>)},
             date \in CompletedDateVals }
    \cup { RawLoad(Str(<<"2", "0", "2", "4", "-", "0", "3", "-", "0", "3", "T", "2", "3", ":", "5", "9", ":", "5", "9", "Z">>), Absent, detail) : detail \in DetailVals }

\* the longest list of raw loads handed to flatten_loads
MaxRaw == 2

RECURSIVE SeqsUpTo(_, _)
SeqsUpTo(S, n) ==
    IF n = 0 THEN {<<>>}
    ELSE LET shorter == SeqsUpTo(S, n - 1)
         IN  shorter \cup {Append(s, x) : s \in {t \in shorter : Len(t) = n - 1}, x \in S}

-----------------------------------------------------------------------------
(* Specifications: each draws the input of one stage and applies the stage. *)

ApiIdle ==
    /\ access_token = "" /\ refresh_token = "" /\ authorization = <<>>
    /\ config_file = <<>> /\ server = <<>> /\ call = <<>> /\ sent = <<>>
    /\ page_size = 0 /\ skip = 0 /\ all_loads = <<>> /\ pages = <<>>
    /\ raw_customers = <<>>
LoadIdle == load = <<>> /\ pickup = <<>> /\ delivery = <<>> /\ bco = None
FlattenIdle == raw_loads = <<>> /\ records = <<>> /\ data = <<>>
QueryIdle ==
    again = <<>> /\ today = NoDate /\ selected_week = <<>> /\ risks = <<>> /\ lane_risks = <<>>
AggIdle ==
    /\ load_df = <<>> /\ customer_master = <<>> /\ period_col = "" /\ merged = <<>> /\ df = <<>>
    /\ QueryIdle

loadVars == <<load, pickup, delivery, bco>>
clientVars == <<access_token, refresh_token, authorization, config_file>>
pagingVars == <<page_size, skip, all_loads, pages, raw_customers>>
apiVars == <<clientVars, server, call, sent, pagingVars>>
flattenVars == <<raw_loads, records, data>>
queryVars == <<again, today, selected_week, risks, lane_risks>>
aggVars == <<load_df, customer_master, period_col, merged, df, queryVars>>

\* Location resolver: lines 139-140 of flatten_loads, for one load
LocInit ==
    /\ pc = "input"
    /\ load \in LocLoads
    /\ pickup = <<>> /\ delivery = <<>> /\ bco = None
    /\ FlattenIdle /\ AggIdle /\ ApiIdle

ResolveCities ==
    /\ pc = "input"
    /\ pickup' = resolve_pickup_city(load)
    /\ delivery' = resolve_delivery_city(load)
    /\ pc' = "resolved"
    /\ UNCHANGED <<apiVars, load, bco, flattenVars, aggVars>>

LocNext == ResolveCities

SpecLoc == LocInit /\ [][LocNext]_vars

\* Cargo-owner attribution, for one load
BcoInit ==
    /\ pc = "input"
    /\ load \in BcoLoads
    /\ pickup = <<>> /\ delivery = <<>> /\ bco = None
    /\ FlattenIdle /\ AggIdle /\ ApiIdle

DeriveBco ==
    /\ pc = "input"
    /\ bco' = derive_bco(load)
    /\ pc' = "derived"
    /\ UNCHANGED <<apiVars, load, pickup, delivery, flattenVars, aggVars>>

BcoNext == DeriveBco

SpecBco == BcoInit /\ [][BcoNext]_vars

\* Record normalizer
FlattenInit ==
    /\ pc = "input"
    /\ raw_loads \in SeqsUpTo(RawSamples, MaxRaw)
    /\ records = <<>> /\ data = <<>>
    /\ LoadIdle /\ AggIdle /\ ApiIdle

Flatten ==
    /\ pc = "input"
    /\ records' = flatten_loads(raw_loads)
    /\ pc' = "flattened"
    /\ UNCHANGED <<apiVars, raw_loads, data, loadVars, aggVars>>

FlattenNext == Flatten

SpecFlatten == FlattenInit /\ [][FlattenNext]_vars

-----------------------------------------------------------------------------
(* Tables.  A DataFrame is the sequence of its rows; a row is a function    *)
(* from column names to values.  NaN is the missing number; a mean is the   *)
(* fraction n/d in lowest terms.                                            *)

NaN == [t |-> "nan"]

RECURSIVE GCD(_, _)
GCD(a, b) == IF b = 0 THEN a ELSE GCD(b, a % b)

Frac(n, d) == LET g == GCD(n, d) IN [t |-> "num", n |-> n \div g, d |-> d \div g]

IsNaN(x) == x.t = "nan"

RECURSIVE SumOf(_, _)
SumOf(rows, col) == IF rows = <<>> THEN 0 ELSE Head(rows)[col] + SumOf(Tail(rows), col)

\* code points order the characters of a string; the arrow of a lane
\* (U+2192) comes after every ASCII character
AsciiOrder ==
    <<" ", "'", ",", "-", ".", "/">> \o DigitChars \o <<":", "?">>
        \o UpperLetters \o <<"_">> \o LowerLetters \o <<"->">>

CharCode(c) == IndexIn(c, AsciiOrder)

\* a < b for two strings
StrLess(a, b) ==
    \E i \in 1..(Len(a) + 1) :
        /\ i <= Len(b)
        /\ \A j \in 1..(i - 1) : a[j] = b[j]
        /\ i = Len(a) + 1 \/ CharCode(a[i]) < CharCode(b[i])

\* sorted(S) for a set of strings
RECURSIVE SortedStrings(_)
SortedStrings(S) ==
    IF S = {} THEN <<>>
    ELSE LET least == CHOOSE x \in S : \A y \in S : ~StrLess(y, x)
         IN  <<least>> \o SortedStrings(S \ {least})

-----------------------------------------------------------------------------
(* 4. Always-visible customers (left join) *)

\* the skeleton: one row per period and master row, periods ascending
RECURSIVE SkeletonRows(_, _, _)
SkeletonRows(periods, master, pcol) ==
    IF periods = <<>> THEN <<>>
    ELSE [i \in DOMAIN master |->
            [customer_name |-> master[i].name,
             customer_id |-> master[i].id,
             customer_tier |-> master[i].tier] @@ (pcol :> Head(periods))]
         \o SkeletonRows(Tail(periods), master, pcol)

\* the loads of one group of groupby(["customer_name", period_col])
GroupRows(loads, name, period, pcol) ==
    SelectSeq(loads, LAMBDA r : r.customer_name = name /\ r[pcol] = period)

\* the aggregates of one group; groupby drops the rows whose key is null, and
\* "count" counts the load_id values that are not null
AggRow(loads, name, period, pcol) ==
    LET g == GroupRows(loads, name, period, pcol)
    IN  [ loads |-> Len(SelectSeq(g, LAMBDA r : r.load_id # None)),
          revenue |-> SumOf(g, "pricing_total"),
          avg_revenue |-> Frac(SumOf(g, "pricing_total"), Len(g)),
          otp |-> Frac(SumOf(g, "on_time_pickup"), Len(g)),
          otd |-> Frac(SumOf(g, "on_time_delivery"), Len(g)),
          uncontrollable_events |->
              Len(SelectSeq(g, LAMBDA r : r.exception_label = LitUncontrollable)) ]

\* what fillna leaves in a skeleton row that found no aggregate
FilledRow ==
    [ loads |-> 0, revenue |-> 0, avg_revenue |-> Frac(0, 1),
      otp |-> NaN, otd |-> NaN, uncontrollable_events |-> 0 ]

\* an inner join: skeleton rows without an aggregate are lost
skeleton_join_inner(loads, master, pcol) ==
    IF loads = <<>> \/ master = <<>> THEN <<>>
    ELSE LET periods == SortedStrings({loads[i][pcol] : i \in DOMAIN loads})
             skeleton == SkeletonRows(periods, master, pcol)
             hit(s) == s.customer_name # None
                          /\ GroupRows(loads, s.customer_name, s[pcol], pcol) # <<>>
             kept == SelectSeq(skeleton, hit)
         IN  [i \in DOMAIN kept |->
                kept[i] @@ AggRow(loads, kept[i].customer_name, kept[i][pcol], pcol)]

\* fillna(0) on the on-time rates as on the counts
skeleton_join_zero_rates(loads, master, pcol) ==
    IF loads = <<>> \/ master = <<>> THEN <<>>
    ELSE LET periods == SortedStrings({loads[i][pcol] : i \in DOMAIN loads})
             skeleton == SkeletonRows(periods, master, pcol)
             hit(s) == s.customer_name # None
                          /\ GroupRows(loads, s.customer_name, s[pcol], pcol) # <<>>
         IN  [i \in DOMAIN skeleton |->
                skeleton[i] @@
                    IF hit(skeleton[i])
                    THEN AggRow(loads, skeleton[i].customer_name, skeleton[i][pcol], pcol)
                    ELSE [FilledRow EXCEPT !.otp = Frac(0, 1), !.otd = Frac(0, 1)]]

_skeleton_join(loads, master, pcol) ==
    IF loads = <<>> \/ master = <<>> THEN <<>>
    ELSE LET periods == SortedStrings({loads[i][pcol] : i \in DOMAIN loads})
             skeleton == SkeletonRows(periods, master, pcol)
             hit(s) == s.customer_name # None
                          /\ GroupRows(loads, s.customer_name, s[pcol], pcol) # <<>>
         IN  [i \in DOMAIN skeleton |->
                skeleton[i] @@
                    IF hit(skeleton[i])
                    THEN AggRow(loads, skeleton[i].customer_name, skeleton[i][pcol], pcol)
                    ELSE FilledRow]

-----------------------------------------------------------------------------
(* Trend and change engine *)

LitNew == <<"N", "E", "W">>
LitZero == <<"0">>
LitUp == <<"U", "P">>
LitDown == <<"D", "O", "W", "N">>
LitNA == <<"N", "/", "A">>
LitStable == <<"S", "T", "A", "B", "L", "E">>
LitAtRisk == <<"A", "T", " ", "R", "I", "S", "K">>
LitOk == <<"O", "K">>

\* a number of one decimal is held in tenths
Dec1(tenths) == [t |-> "dec1", v |-> tenths]

Abs(x) == IF x < 0 THEN -x ELSE x

\* the integer nearest to n/d (d > 0), a tie going to the even neighbour
RoundHalfEven(n, d) ==
    LET fl == IF n >= 0 THEN n \div d ELSE -((-n + d - 1) \div d)
        twice == 2 * (n - fl * d)
    IN  IF twice > d \/ (twice = d /\ fl % 2 = 1) THEN fl + 1 ELSE fl

RECURSIVE NatDigits(_)
NatDigits(n) ==
    IF n < 10 THEN <<DigitChars[n + 1]>> ELSE NatDigits(n \div 10) \o <<DigitChars[(n % 10) + 1]>>

\* f"{x:+.1f}" of a number of one decimal
FormatSigned1(x) ==
    <<IF x.v < 0 THEN "-" ELSE "+">> \o NatDigits(Abs(x.v) \div 10)
        \o <<".", DigitChars[(Abs(x.v) % 10) + 1]>>

\* row a sorts before row b under sort_values(["customer_name", period_col])
RowLess(a, b, pcol) ==
    \/ StrLess(a.customer_name.v, b.customer_name.v)
    \/ a.customer_name = b.customer_name /\ StrLess(a[pcol], b[pcol])

\* the rows left in the order given
SortRows_unsorted(rows, pcol) == rows

\* the stable sort of the rows
RECURSIVE SortRows(_, _)
SortRows(rows, pcol) ==
    IF rows = <<>> THEN <<>>
    ELSE LET i == CHOOSE k \in DOMAIN rows :
                     /\ \A j \in DOMAIN rows : ~RowLess(rows[j], rows[k], pcol)
                     /\ \A j \in 1..(k - 1) : RowLess(rows[k], rows[j], pcol)
         IN  <<rows[i]>> \o SortRows(SubSeq(rows, 1, i - 1) \o SubSeq(rows, i + 1, Len(rows)), pcol)

\* the positions before i that groupby("customer_name") puts in the group of row i
GroupBefore(rows, i) == {j \in 1..(i - 1) : rows[j].customer_name = rows[i].customer_name}

Max(S) == CHOOSE x \in S : \A y \in S : y <= x

\* groupby("customer_name")[loads_col].shift(1)
PrevLoads(rows, i) ==
    IF GroupBefore(rows, i) = {} THEN NaN ELSE Num(rows[Max(GroupBefore(rows, i))].loads)

\* a change of 0.0 in place of the missing value after a period of no loads
ChangePct_zero(loads, prev) ==
    IF ~IsNaN(prev) /\ prev.v > 0
    THEN Dec1(RoundHalfEven((loads - prev.v) * 1000, prev.v))
    ELSE IF ~IsNaN(prev) THEN Dec1(0) ELSE NaN

\* round((loads - prev) / prev * 100, 1) when prev is a number above 0
ChangePct(loads, prev) ==
    IF ~IsNaN(prev) /\ prev.v > 0
    THEN Dec1(RoundHalfEven((loads - prev.v) * 1000, prev.v))
    ELSE NaN

ChangeLabel(prev, change_pct) ==
    IF IsNaN(prev) THEN LitNew
    ELSE IF ~IsNaN(change_pct) THEN FormatSigned1(change_pct) ELSE LitZero

RECURSIVE SumLoadsAt(_, _)
SumLoadsAt(rows, S) ==
    IF S = {} THEN 0
    ELSE LET j == CHOOSE x \in S : TRUE IN rows[j].loads + SumLoadsAt(rows, S \ {j})

\* the n positions of the group of row i that come last before i
LastBefore(rows, i, n) ==
    {j \in GroupBefore(rows, i) : Cardinality({h \in GroupBefore(rows, i) : h > j}) < n}

\* x.shift(1).rolling(4, min_periods=1).mean() within the group
TrailingAvg(rows, i) ==
    LET w == LastBefore(rows, i, 4)
    IN  IF w = {} THEN NaN ELSE Frac(SumLoadsAt(rows, w), Cardinality(w))

\* loads > avg * 1.10 and loads < avg * 0.90, for avg = n/d
Above110(loads, avg) == loads * avg.d * 100 > avg.n * 110
Below90(loads, avg) == loads * avg.d * 100 < avg.n * 90

\* the trend with its thresholds met by equality
VolumeTrend_inclusive(loads, avg) ==
    IF ~IsNaN(avg) /\ avg.n > 0 /\ loads * avg.d * 100 >= avg.n * 110 THEN LitUp
    ELSE IF ~IsNaN(avg) /\ avg.n > 0 /\ loads * avg.d * 100 <= avg.n * 90 THEN LitDown
    ELSE IF loads = 0 /\ (IsNaN(avg) \/ avg.n = 0) THEN LitNA
    ELSE LitStable

VolumeTrend(loads, avg) ==
    IF ~IsNaN(avg) /\ avg.n > 0 /\ Above110(loads, avg) THEN LitUp
    ELSE IF ~IsNaN(avg) /\ avg.n > 0 /\ Below90(loads, avg) THEN LitDown
    ELSE IF loads = 0 /\ (IsNaN(avg) \/ avg.n = 0) THEN LitNA
    ELSE LitStable

\* "AT RISK" below a rate of 0.90, "N/A" without a rate
ServiceRisk(otd) ==
    IF ~IsNaN(otd) /\ otd.n * 100 < otd.d * 90 THEN LitAtRisk
    ELSE IF IsNaN(otd) THEN LitNA ELSE LitOk

_add_wow_and_flags(table, pcol) ==
    LET rows == SortRows(table, pcol)
    IN  [i \in DOMAIN rows |->
            LET prev == PrevLoads(rows, i)
                change == ChangePct(rows[i].loads, prev)
                avg == TrailingAvg(rows, i)
            IN  \* an assignment to a column the table already has replaces it
                [ prev_loads |-> prev,
                  change_pct |-> change,
                  change_label |-> ChangeLabel(prev, change),
                  trailing_4_avg |-> avg,
                  volume_trend |-> VolumeTrend(rows[i].loads, avg),
                  service_risk |-> ServiceRisk(rows[i].otd) ] @@ rows[i]]

-----------------------------------------------------------------------------
(* Aggregation inputs: normalized loads and customer masters *)

Acme == Str(<<"A", "c", "m", "e">>)
Bolt == Str(<<"B", "o", "l", "t">>)
Zed == Str(<<"Z", "e", "d">>)

\* two lanes, as the lane f-string of flatten_loads writes them
LaneLongBeach == <<"L", "o", "n", "g", " ", "B", "e", "a", "c", "h", ",", " ", "C", "A">> \o LitArrow \o <<"P", "h", "o", "e", "n", "i", "x", ",", " ", "A", "Z">>
LaneOakland == <<"O", "a", "k", "l", "a", "n", "d", ",", " ", "C", "A">> \o LitArrow \o <<"R", "e", "n", "o", ",", " ", "N", "V">>

\* a row of the normalized-load table completed on the day `day`
LoadRow(id, name, revenue, otp, otd, label, day, lane) ==
    LET dt == Strptime(day)
    IN  [ load_id |-> id, customer_name |-> name, pricing_total |-> revenue,
          on_time_pickup |-> otp, on_time_delivery |-> otd, exception_label |-> label,
          lane |-> lane,
          week_start |-> StrftimeYmd(MinusDays(dt, Weekday(dt))),
          month_start |-> StrftimeMonth(dt) ]

\* loads of customers in and out of the master, with and without a name or an
\* identifier, late and on time, in three weeks of two months
JoinRows ==
    { LoadRow(Str(<<"L", "1">>), Acme, 100, 1, 1, <<>>, <<"2", "0", "2", "4", "-", "0", "1", "-", "3", "0">>, LaneLongBeach),
      LoadRow(Str(<<"L", "2">>), Acme, 250, 1, 0, LitUncontrollable, <<"2", "0", "2", "4", "-", "0", "2", "-", "0", "6">>, LaneOakland),
      LoadRow(Str(<<"L", "3">>), Bolt, 0, 0, 1, <<>>, <<"2", "0", "2", "4", "-", "0", "2", "-", "0", "6">>, LaneLongBeach),
      LoadRow(Str(<<"L", "4">>), Zed, 100, 1, 1, <<>>, <<"2", "0", "2", "4", "-", "0", "2", "-", "1", "3">>, LaneLongBeach),
      LoadRow(Str(<<"L", "5">>), None, 100, 1, 1, <<>>, <<"2", "0", "2", "4", "-", "0", "1", "-", "3", "0">>, LaneLongBeach),
      LoadRow(None, Acme, 100, 1, 1, <<>>, <<"2", "0", "2", "4", "-", "0", "2", "-", "0", "1">>, LaneOakland) }

MaxLoads == 3

JoinInputs == SeqsUpTo(JoinRows, MaxLoads)

\* the Monday of the p-th week of a series
SeriesMondays ==
    << <<"2", "0", "2", "4", "-", "0", "1", "-", "0", "8">>, <<"2", "0", "2", "4", "-", "0", "1", "-", "1", "5">>, <<"2", "0", "2", "4", "-", "0", "1", "-", "2", "2">>, <<"2", "0", "2", "4", "-", "0", "1", "-", "2", "9">>,
       <<"2", "0", "2", "4", "-", "0", "2", "-", "0", "5">>, <<"2", "0", "2", "4", "-", "0", "2", "-", "1", "2">>, <<"2", "0", "2", "4", "-", "0", "2", "-", "1", "9">>, <<"2", "0", "2", "4", "-", "0", "2", "-", "2", "6">>,
       \* no load in the week of 4 March
       <<"2", "0", "2", "4", "-", "0", "3", "-", "1", "1">>, <<"2", "0", "2", "4", "-", "0", "3", "-", "1", "8">>, <<"2", "0", "2", "4", "-", "0", "3", "-", "2", "5">>, <<"2", "0", "2", "4", "-", "0", "4", "-", "0", "1">>,
       <<"2", "0", "2", "4", "-", "0", "4", "-", "0", "8">>, <<"2", "0", "2", "4", "-", "0", "4", "-", "1", "5">>, <<"2", "0", "2", "4", "-", "0", "4", "-", "2", "2">> >>

SeriesDay(p) == SeriesMondays[p]

\* n loads of one customer on one day
RECURSIVE Repeat(_, _)
Repeat(row, n) == IF n = 0 THEN <<>> ELSE <<row>> \o Repeat(row, n - 1)

\* the loads of a count table: counts[name][p] loads of the customer in week p,
\* and one load of a customer outside the master in every week
RECURSIVE SeriesRows(_, _, _)
SeriesRows(a, b, p) ==
    IF p = 0 THEN <<>>
    ELSE SeriesRows(a, b, p - 1)
         \o <<LoadRow(Str(<<"L", "0">>), Zed, 100, 1, 1, <<>>, SeriesDay(p), LaneLongBeach)>>
         \o Repeat(LoadRow(Str(<<"L", "A">>), Acme, 100, 1, 1, <<>>, SeriesDay(p), LaneLongBeach), a[p])
         \o Repeat(LoadRow(Str(<<"L", "B">>), Bolt, 100, 1, 1, <<>>, SeriesDay(p), LaneLongBeach), b[p])

\* the sequences of n counts that add up to t at most
RECURSIVE CountSeqs(_, _)
CountSeqs(n, t) ==
    IF n = 0 THEN {<<>>}
    ELSE UNION {{<<c>> \o s : s \in CountSeqs(n - 1, t - c)} : c \in 0..t}

MaxPeriods == 5
MaxSeriesLoads == 2

SeriesInputs ==
    UNION {{SeriesRows(SubSeq(c, 1, np), SubSeq(c, np + 1, 2 * np), np) :
                c \in CountSeqs(2 * np, MaxSeriesLoads)} : np \in 1..MaxPeriods}

\* busy months of 28, 29, 30 and 31 days, a December among them
MonthRows ==
    Repeat(LoadRow(Str(<<"L", "A">>), Acme, 100, 1, 1, <<>>, <<"2", "0", "2", "3", "-", "0", "2", "-", "0", "7">>, LaneLongBeach), 61)
    \o Repeat(LoadRow(Str(<<"L", "B">>), Bolt, 250, 1, 1, <<>>, <<"2", "0", "2", "3", "-", "1", "2", "-", "0", "5">>, LaneOakland), 3)
    \o Repeat(LoadRow(Str(<<"L", "A">>), Acme, 100, 1, 1, <<>>, <<"2", "0", "2", "4", "-", "0", "2", "-", "0", "6">>, LaneLongBeach), 31)
    \o Repeat(LoadRow(Str(<<"L", "B">>), Bolt, 50, 1, 1, <<>>, <<"2", "0", "2", "4", "-", "0", "4", "-", "0", "2">>, LaneOakland), 41)

\* weeks in which a customer holds exactly 5% of the revenue and less, is
\* on time at exactly 90%, and loses exactly 30% and 20% of its loads, once
\* beside a late load of the other customer
ShareRows ==
    <<LoadRow(Str(<<"L", "A">>), Acme, 50, 1, 0, <<>>, SeriesDay(1), LaneLongBeach),
      LoadRow(Str(<<"L", "B">>), Bolt, 950, 1, 1, <<>>, SeriesDay(1), LaneOakland),
      LoadRow(Str(<<"L", "A">>), Acme, 50, 1, 0, <<>>, SeriesDay(2), LaneLongBeach),
      LoadRow(Str(<<"L", "B">>), Bolt, 1000, 1, 1, <<>>, SeriesDay(2), LaneOakland),
      LoadRow(Str(<<"L", "A">>), Acme, 100, 1, 0, <<>>, SeriesDay(3), LaneLongBeach)>>
    \o Repeat(LoadRow(Str(<<"L", "A">>), Acme, 100, 1, 1, <<>>, SeriesDay(3), LaneLongBeach), 9)
    \o Repeat(LoadRow(Str(<<"L", "A">>), Acme, 100, 1, 1, <<>>, SeriesDay(4), LaneLongBeach), 7)
    \o Repeat(LoadRow(Str(<<"L", "A">>), Acme, 100, 1, 1, <<>>, SeriesDay(5), LaneLongBeach), 5)
    \o <<LoadRow(Str(<<"L", "B">>), Bolt, 100, 1, 0, <<>>, SeriesDay(5), LaneOakland)>>
    \o Repeat(LoadRow(Str(<<"L", "A">>), Acme, 100, 1, 1, <<>>, SeriesDay(6), LaneLongBeach), 4)

\* a week of loads on two lanes after a week on one: a load without an
\* identifier alone on its lane, the lane of less revenue first in the order
\* of the lanes, a customer outside the master and a load without a customer
LaneRows ==
    << LoadRow(Str(<<"L", "1">>), Acme, 100, 1, 1, <<>>, SeriesDay(1), LaneLongBeach),
       LoadRow(Str(<<"L", "2">>), Acme, 100, 1, 1, <<>>, SeriesDay(1), LaneLongBeach),
       LoadRow(Str(<<"L", "3">>), Acme, 300, 1, 1, <<>>, SeriesDay(2), LaneLongBeach),
       LoadRow(None, Acme, 100, 1, 0, <<>>, SeriesDay(2), LaneOakland),
       LoadRow(Str(<<"L", "4">>), Bolt, 100, 1, 1, <<>>, SeriesDay(2), LaneLongBeach),
       LoadRow(Str(<<"L", "5">>), Bolt, 100, 1, 1, <<>>, SeriesDay(2), LaneOakland),
       LoadRow(Str(<<"L", "6">>), Bolt, 150, 1, 0, <<>>, SeriesDay(2), LaneOakland),
       LoadRow(Str(<<"L", "7">>), Zed, 100, 1, 1, <<>>, SeriesDay(2), LaneLongBeach),
       LoadRow(Str(<<"L", "8">>), None, 100, 1, 1, <<>>, SeriesDay(2), LaneLongBeach) >>

\* series that meet the thresholds of the trend exactly, that outlast the
\* window of four periods, and that collapse after steady weeks
ScenarioInputs ==
    { SeriesRows(<<10, 11>>, <<10, 9>>, 2),
      SeriesRows(<<4, 0, 0, 0, 0, 1>>, <<0, 0, 0, 0, 1, 0>>, 6),
      SeriesRows(<<20, 18, 22, 5>>, <<3, 3, 4, 3>>, 4) }

\* further tables for the queries of the dashboard: a series that loses
\* exactly 30% at exactly 70% of its average beside one that loses half at
\* its average, and one of 14 weeks in which
\* one customer was last active 13 weeks before the last week and the other 12
QueryScenarios ==
    { SeriesRows(<<10, 10, 7>>, <<0, 2, 1>>, 3),
      SeriesRows([p \in 1..14 |-> IF p = 1 THEN 1 ELSE 0],
                 [p \in 1..14 |-> IF p = 2 THEN 1 ELSE 0], 14),
      ShareRows,
      MonthRows,
      LaneRows }

AggInputs == JoinInputs \cup SeriesInputs \cup ScenarioInputs

MasterRow(id, name, tier) == [id |-> Str(id), name |-> name, tier |-> tier]

\* masters: empty, one customer, two in either order, two of the same name
Masters ==
    { <<>>,
      <<MasterRow(<<"c", "1">>, Acme, 1)>>,
      <<MasterRow(<<"c", "1">>, Acme, 1), MasterRow(<<"c", "2">>, Bolt, 2)>>,
      <<MasterRow(<<"c", "2">>, Bolt, 2), MasterRow(<<"c", "1">>, Acme, 1)>>,
      <<MasterRow(<<"c", "1">>, Acme, 2), MasterRow(<<"c", "3">>, Acme, 2)>> }

PeriodCols == {"week_start", "month_start"}

-----------------------------------------------------------------------------
(* transform_loads, from the normalized loads to the annotated aggregates *)

AggInit ==
    /\ pc = "input"
    /\ load_df \in AggInputs
    /\ customer_master \in Masters
    /\ period_col \in PeriodCols
    /\ merged = <<>> /\ df = <<>>
    /\ QueryIdle /\ LoadIdle /\ FlattenIdle /\ ApiIdle

\* weekly_customer = _skeleton_join(completed_df, customer_master, "week_start"),
\* and the same for "month_start"
SkeletonJoin ==
    /\ pc = "input"
    /\ merged' = _skeleton_join(load_df, customer_master, period_col)
    /\ pc' = "joined"
    /\ UNCHANGED <<apiVars, loadVars, flattenVars, load_df, customer_master, period_col, df, queryVars>>

\* if not weekly_customer.empty: weekly_customer = _add_wow_and_flags(...)
AddWowAndFlags ==
    /\ pc = "joined"
    /\ merged # <<>>
    /\ df' = _add_wow_and_flags(merged, period_col)
    /\ pc' = "annotated"
    /\ UNCHANGED <<apiVars, loadVars, flattenVars, load_df, customer_master, period_col, merged, queryVars>>


AggNext == SkeletonJoin \/ AddWowAndFlags

SpecAgg == AggInit /\ [][AggNext]_vars

-----------------------------------------------------------------------------
(* A second application of the trend and change engine *)

\* orders in which a caller may hand the rows of a table over
InputOrders == {"same", "reversed", "rotated"}

Reorder(rows, order) ==
    IF rows = <<>> \/ order = "same" THEN rows
    ELSE IF order = "reversed" THEN [i \in DOMAIN rows |-> rows[Len(rows) + 1 - i]]
    ELSE Tail(rows) \o <<Head(rows)>>

\* _add_wow_and_flags(df, period_col) on the table it returned before
Reannotate ==
    /\ pc = "annotated"
    /\ \E order \in InputOrders :
           LET given == Reorder(df, order)
           IN  again' = [given |-> given, result |-> _add_wow_and_flags(given, period_col)]
    /\ pc' = "reannotated"
    /\ UNCHANGED <<apiVars, loadVars, flattenVars, load_df, customer_master, period_col, merged, df,
                   today, selected_week, risks, lane_risks>>

-----------------------------------------------------------------------------
(* 5. Monthly aggregation + run-rate *)

\* Python's float is IEEE binary64.  For whole numbers n, d, m the value of
\* n / d * m is the product n*m/d rounded twice: the quotient to 53 bits, then
\* the product.  Where n*m/d is a whole or a half number the two roundings can
\* leave the result one step beside it; FloatSide tells on which side, from
\* the remainder of the quotient's 53-bit mantissa.

\* q with 2^q <= n/d < 2^(q+1)
RECURSIVE Log2Ratio(_, _)
Log2Ratio(n, d) ==
    IF n >= 2 * d THEN Log2Ratio(n, 2 * d) + 1
    ELSE IF n < d THEN Log2Ratio(2 * n, d) - 1
    ELSE 0

RECURSIVE Pow2(_)
Pow2(e) == IF e = 0 THEN 1 ELSE 2 * Pow2(e - 1)

\* (x * 2^e) mod d
RECURSIVE ShiftMod(_, _, _)
ShiftMod(x, e, d) == IF e = 0 THEN x % d ELSE ShiftMod((2 * x) % d, e - 1, d)

\* -1, 0 or 1 as float(n / d * m) is below, at or above n*m/d = twice / 2
FloatSide(n, d, m, twice) ==
    LET q == Log2Ratio(n, d)
        rem == ShiftMod(n, 52 - q, d)
        p == Log2Ratio(twice, 2)
        isPow2 == twice = Pow2(p + 1)
        Beyond(err, t) == IF t >= 0 THEN m * err > d * Pow2(t) ELSE m * err * Pow2(-t) > d
    IN  IF rem = 0 THEN 0
        ELSE IF 2 * rem < d
             THEN IF Beyond(rem, p - q - 1 - (IF isPow2 THEN 1 ELSE 0)) THEN -1 ELSE 0
             ELSE IF Beyond(d - rem, p - q - 1) THEN 1 ELSE 0

\* int(n / d * m)
IntOfProduct(n, d, m) ==
    LET k == (n * m) \div d
    IN  IF n > 0 /\ k * d = n * m /\ FloatSide(n, d, m, 2 * k) < 0 THEN k - 1 ELSE k

\* round(n / d * m, 0)
RoundOfProduct(n, d, m) ==
    LET k == (n * m) \div d
        twiceRest == 2 * (n * m - k * d)
        side == FloatSide(n, d, m, 2 * k + 1)
    IN  IF n = 0 THEN 0
        ELSE IF twiceRest = d
             THEN IF side > 0 \/ (side = 0 /\ k % 2 = 1) THEN k + 1 ELSE k
             ELSE IF twiceRest > d THEN k + 1 ELSE k

\* the "conservative estimate" that line 275 starts from
DaysInCurrentMonth_estimate(now) == 28

\* (next_month - datetime(today.year, today.month, 1)).days
DaysInCurrentMonth(now) ==
    LET next_month == IF now.m = 12 THEN [y |-> now.y + 1, m |-> 1, d |-> 1]
                      ELSE [y |-> now.y, m |-> now.m + 1, d |-> 1]
    IN  ToOrdinal(next_month) - ToOrdinal([y |-> now.y, m |-> now.m, d |-> 1])

\* the three columns, for given days_elapsed and days_in_month
RunRateColumns(monthly_df, current_month, days_elapsed, days_in_month) ==
    [i \in DOMAIN monthly_df |->
        LET r == monthly_df[i]
            is_current == r.month_start = current_month
        IN  [ is_current_month |-> is_current,
              run_rate_loads |->
                  IF days_elapsed > 0 /\ is_current
                  THEN IntOfProduct(r.loads, days_elapsed, days_in_month) ELSE r.loads,
              run_rate_revenue |->
                  IF days_elapsed > 0 /\ is_current
                  THEN RoundOfProduct(r.revenue, days_elapsed, days_in_month) ELSE r.revenue ]
            @@ r]

_add_run_rate(monthly_df, now) ==
    IF monthly_df = <<>> THEN monthly_df
    ELSE RunRateColumns(monthly_df, StrftimeMonth(now), now.d, DaysInCurrentMonth(now))

\* days on which the dashboard may run: the first of a month, the middle and
\* the last day of a leap February, the end of a December, and days of months
\* of 30 and of 28 days
Todays ==
    { Strptime(<<"2", "0", "2", "4", "-", "0", "1", "-", "0", "1">>), Strptime(<<"2", "0", "2", "4", "-", "0", "2", "-", "1", "0">>), Strptime(<<"2", "0", "2", "4", "-", "0", "2", "-", "2", "9">>),
      Strptime(<<"2", "0", "2", "3", "-", "1", "2", "-", "3", "0">>), Strptime(<<"2", "0", "2", "4", "-", "0", "4", "-", "1", "0">>), Strptime(<<"2", "0", "2", "3", "-", "0", "2", "-", "1", "4">>) }

\* monthly_customer = _add_run_rate(monthly_customer)
AddRunRate ==
    /\ pc = "annotated"
    /\ period_col = "month_start"
    /\ \E now \in Todays :
           /\ today' = now
           /\ df' = _add_run_rate(df, now)
    /\ pc' = "projected"
    /\ UNCHANGED <<apiVars, loadVars, flattenVars, load_df, customer_master, period_col, merged,
                   again, selected_week, risks, lane_risks>>

-----------------------------------------------------------------------------
(* 6. Risk flag engine *)

FlagStale == <<"S", "T", "A", "L", "E", " ", "A", "C", "C", "O", "U", "N", "T", " ", "(", "0", " ", "L", "O", "A", "D", "S", ")">>
FlagPoorService == <<"H", "I", "G", "H", " ", "R", "E", "V", "E", "N", "U", "E", " ", "+", " ", "P", "O", "O", "R", " ", "S", "E", "R", "V", "I", "C", "E">>
FlagDeclining == <<"H", "I", "G", "H", " ", "R", "E", "V", "E", "N", "U", "E", " ", "+", " ", "D", "E", "C", "L", "I", "N", "I", "N", "G", " ", "V", "O", "L", "U", "M", "E">>
FlagSharpDrop == <<"S", "H", "A", "R", "P", " ", "W", "O", "W", " ", "D", "R", "O", "P">>
FlagBelowAvg == <<"B", "E", "L", "O", "W", " ", "T", "R", "A", "I", "L", "I", "N", "G", " ", "A", "V", "E", "R", "A", "G", "E">>
LitBar == <<" ", "|", " ">>

\* sep.join(items)
RECURSIVE Join(_, _)
Join(items, sep) ==
    IF items = <<>> THEN <<>>
    ELSE IF Len(items) = 1 THEN items[1]
    ELSE items[1] \o sep \o Join(Tail(items), sep)

\* sorted(weekly_customer["week_start"].unique())
AllWeeks(weekly) == SortedStrings({weekly[i].week_start : i \in DOMAIN weekly})

\* every week before the selected one
TrailingWeeks_unbounded(weekly, week) ==
    LET all_weeks == AllWeeks(weekly)
        week_idx == IF \E k \in DOMAIN all_weeks : all_weeks[k] = week
                    THEN (CHOOSE k \in DOMAIN all_weeks : all_weeks[k] = week) - 1
                    ELSE -1
    IN  IF week_idx > 0 THEN SubSeq(all_weeks, 1, week_idx) ELSE <<>>

\* all_weeks[max(0, week_idx - 12):week_idx] if week_idx > 0 else []
TrailingWeeks(weekly, week) ==
    LET all_weeks == AllWeeks(weekly)
        week_idx == IF \E k \in DOMAIN all_weeks : all_weeks[k] = week
                    THEN (CHOOSE k \in DOMAIN all_weeks : all_weeks[k] = week) - 1
                    ELSE -1
        from == IF week_idx - 12 > 0 THEN week_idx - 12 ELSE 0
    IN  IF week_idx > 0 THEN SubSeq(all_weeks, from + 1, week_idx) ELSE <<>>

\* the loads of the customer in every week of the table
TrailingLoads_all(weekly, weeks, cust) ==
    SumOf(SelectSeq(weekly, LAMBDA r : r.customer_name = cust), "loads")

\* trailing_loads_by_cust.get(cust, 0)
TrailingLoads(weekly, weeks, cust) ==
    SumOf(SelectSeq(weekly, LAMBDA r : r.customer_name = cust
                                        /\ \E k \in DOMAIN weeks : weeks[k] = r.week_start),
          "loads")

\* the share as a fraction of 1
RevenueShare_fraction(revenue, total) ==
    IF total > 0 THEN Frac(revenue, total) ELSE Frac(0, 1)

\* current["revenue"] / total_revenue * 100 if total_revenue > 0 else 0
RevenueShare(revenue, total) == IF total > 0 THEN Frac(revenue * 100, total) ELSE Frac(0, 1)

\* the rule of the trailing average as the alternative of the sharp drop
RiskFlags_elif(row, trailing_had_loads) ==
    LET change == IF ~IsNaN(row.change_pct) THEN row.change_pct ELSE Dec1(0)
        high == row.revenue_share.n >= 5 * row.revenue_share.d
        t4 == row.trailing_4_avg
    IN  (IF row.loads = 0 /\ trailing_had_loads THEN <<FlagStale>> ELSE <<>>)
        \o (IF high /\ ~IsNaN(row.otd) /\ row.otd.n * 100 < 90 * row.otd.d
            THEN <<FlagPoorService>> ELSE <<>>)
        \o (IF high /\ change.v < -200 THEN <<FlagDeclining>> ELSE <<>>)
        \o (IF change.v < -300 THEN <<FlagSharpDrop>>
            ELSE IF ~IsNaN(t4) /\ t4.n > 0 /\ row.loads * t4.d * 100 < t4.n * 70
            THEN <<FlagBelowAvg>> ELSE <<>>)

\* the five rules in another order of evaluation
RiskFlags_drop_first(row, trailing_had_loads) ==
    LET change == IF ~IsNaN(row.change_pct) THEN row.change_pct ELSE Dec1(0)
        high == row.revenue_share.n >= 5 * row.revenue_share.d
        t4 == row.trailing_4_avg
    IN  (IF change.v < -300 THEN <<FlagSharpDrop>> ELSE <<>>)
        \o (IF row.loads = 0 /\ trailing_had_loads THEN <<FlagStale>> ELSE <<>>)
        \o (IF high /\ ~IsNaN(row.otd) /\ row.otd.n * 100 < 90 * row.otd.d
            THEN <<FlagPoorService>> ELSE <<>>)
        \o (IF high /\ change.v < -200 THEN <<FlagDeclining>> ELSE <<>>)
        \o (IF ~IsNaN(t4) /\ t4.n > 0 /\ row.loads * t4.d * 100 < t4.n * 70
            THEN <<FlagBelowAvg>> ELSE <<>>)

\* the flags of one row of the selected week, in the order of evaluation
RiskFlags(row, trailing_had_loads) ==
    LET change == IF ~IsNaN(row.change_pct) THEN row.change_pct ELSE Dec1(0)
        high == row.revenue_share.n >= 5 * row.revenue_share.d
        t4 == row.trailing_4_avg
    IN  (IF row.loads = 0 /\ trailing_had_loads THEN <<FlagStale>> ELSE <<>>)
        \o (IF high /\ ~IsNaN(row.otd) /\ row.otd.n * 100 < 90 * row.otd.d
            THEN <<FlagPoorService>> ELSE <<>>)
        \o (IF high /\ change.v < -200 THEN <<FlagDeclining>> ELSE <<>>)
        \o (IF change.v < -300 THEN <<FlagSharpDrop>> ELSE <<>>)
        \o (IF ~IsNaN(t4) /\ t4.n > 0 /\ row.loads * t4.d * 100 < t4.n * 70
            THEN <<FlagBelowAvg>> ELSE <<>>)

\* the dict appended to risks for a row that has flags
RiskRow(row, flags) ==
    [ customer_name |-> row.customer_name,
      weekly_revenue |-> row.revenue,
      weekly_loads |-> row.loads,
      wow_change_pct |-> IF ~IsNaN(row.change_pct) THEN row.change_pct ELSE Dec1(0),
      on_time_delivery_pct |->
          IF ~IsNaN(row.otd) THEN Dec1(RoundHalfEven(row.otd.n * 1000, row.otd.d)) ELSE None,
      risk_flag |-> Join(flags, LitBar) ]

\* the table `current` with its revenue_share, the list trailing_weeks, and
\* the table returned
compute_risk_flags(weekly, week) ==
    LET selected == SelectSeq(weekly, LAMBDA r : r.week_start = week)
        revenue_total == SumOf(selected, "revenue")
        current == [i \in DOMAIN selected |->
                       [revenue_share |-> RevenueShare(selected[i].revenue, revenue_total)]
                       @@ selected[i]]
        trailing_weeks == TrailingWeeks(weekly, week)
        flagsOf(row) ==
            RiskFlags(row, TrailingLoads(weekly, trailing_weeks, row.customer_name) > 0)
        flagged == SelectSeq(current, LAMBDA row : flagsOf(row) # <<>>)
    IN  [ current |-> current,
          trailing_weeks |-> trailing_weeks,
          rows |-> [i \in DOMAIN flagged |-> RiskRow(flagged[i], flagsOf(flagged[i]))] ]

\* revenue_share written to the rows of the caller's table
WeeklyAfterRiskFlags_view(weekly, week) ==
    LET revenue_total == SumOf(SelectSeq(weekly, LAMBDA r : r.week_start = week), "revenue")
    IN  [i \in DOMAIN weekly |->
            IF weekly[i].week_start = week
            THEN [revenue_share |-> RevenueShare(weekly[i].revenue, revenue_total)] @@ weekly[i]
            ELSE weekly[i]]

\* weekly_customer as the call leaves it: `current` is a .copy() of the
\* selected rows, and revenue_share is assigned to that copy only
WeeklyAfterRiskFlags(weekly, week) == weekly

\* a Monday that no load set of the model reaches
AbsentWeek == <<"2", "0", "2", "2", "-", "0", "1", "-", "0", "3">>

\* risk_df = compute_risk_flags(weekly_df, cleaned_df, selected_week)
ComputeRiskFlags ==
    /\ pc = "annotated"
    /\ period_col = "week_start"
    /\ \E week \in {df[i].week_start : i \in DOMAIN df} \cup {AbsentWeek}, order \in InputOrders :
           /\ selected_week' = week
           /\ risks' = compute_risk_flags(Reorder(df, order), week)
    /\ pc' = "flagged"
    /\ UNCHANGED <<apiVars, loadVars, flattenVars, load_df, customer_master, period_col, merged, df,
                   again, today, lane_risks>>

-----------------------------------------------------------------------------
(* 6b. Lane-level risk attribution *)

\* the keys of groupby(["customer_name", "lane"]): rows with a null name are
\* dropped
LaneKeys(week_loads) ==
    {<<week_loads[i].customer_name, week_loads[i].lane>> :
        i \in {k \in DOMAIN week_loads : week_loads[k].customer_name # None}}

\* the keys in the order of the groups: by customer_name, then by lane
RECURSIVE SortedKeys(_)
SortedKeys(K) ==
    IF K = {} THEN <<>>
    ELSE LET least == CHOOSE k \in K : \A other \in K \ {k} :
                          \/ StrLess(k[1].v, other[1].v)
                          \/ k[1] = other[1] /\ StrLess(k[2], other[2])
         IN  <<least>> \o SortedKeys(K \ {least})

\* the aggregates of one group and its otd_pct = (otd * 100).round(1)
LaneRow(week_loads, key) ==
    LET g == SelectSeq(week_loads, LAMBDA r : r.customer_name = key[1] /\ r.lane = key[2])
    IN  [ customer_name |-> key[1],
          lane |-> key[2],
          volume |-> Len(SelectSeq(g, LAMBDA r : r.load_id # None)),
          revenue |-> SumOf(g, "pricing_total"),
          otd |-> Frac(SumOf(g, "on_time_delivery"), Len(g)),
          otd_pct |-> Dec1(RoundHalfEven(SumOf(g, "on_time_delivery") * 1000, Len(g))) ]

\* sort_values(["customer_name", "revenue"], ascending=[True, False]): rows
\* that tie keep their order
LaneSort(rows) ==
    LET before(j, i) ==
            \/ StrLess(rows[j].customer_name.v, rows[i].customer_name.v)
            \/ /\ rows[j].customer_name = rows[i].customer_name
               /\ \/ rows[j].revenue > rows[i].revenue
                  \/ rows[j].revenue = rows[i].revenue /\ j < i
        rank(i) == 1 + Cardinality({j \in DOMAIN rows : before(j, i)})
    IN  [p \in DOMAIN rows |-> rows[CHOOSE i \in DOMAIN rows : rank(i) = p]]

compute_lane_risks(completed_df, week) ==
    LET week_loads == SelectSeq(completed_df, LAMBDA r : r.week_start = week)
        keys == SortedKeys(LaneKeys(week_loads))
    IN  IF completed_df = <<>> \/ week_loads = <<>> THEN <<>>
        ELSE LaneSort([k \in DOMAIN keys |-> LaneRow(week_loads, keys[k])])

\* lane_risks = compute_lane_risks(cleaned_df, selected_week), for a week
\* that has a risk row
ComputeLaneRisks ==
    /\ pc = "flagged"
    /\ risks.rows # <<>>
    /\ lane_risks' = compute_lane_risks(load_df, selected_week)
    /\ pc' = "attributed"
    /\ UNCHANGED <<apiVars, loadVars, flattenVars, load_df, customer_master, period_col, merged, df,
                   again, today, selected_week, risks>>

-----------------------------------------------------------------------------
(* 7. Full transform pipeline, from the raw API loads to the tables of the  *)
(* dashboard, and the two queries on what it returns                        *)

\* the keys of groupby(["customer_name", "lane", "week_start"]) in their
\* order: by customer_name, then lane, then week_start
RECURSIVE SortedWeekKeys(_)
SortedWeekKeys(K) ==
    IF K = {} THEN <<>>
    ELSE LET least == CHOOSE k \in K : \A other \in K \ {k} :
                          \/ StrLess(k[1].v, other[1].v)
                          \/ k[1] = other[1] /\ StrLess(k[2], other[2])
                          \/ k[1] = other[1] /\ k[2] = other[2] /\ StrLess(k[3], other[3])
         IN  <<least>> \o SortedWeekKeys(K \ {least})

\* lane_df: one row per customer, lane and week of the completed loads
LaneTable(completed_df) ==
    LET named == SelectSeq(completed_df, LAMBDA r : r.customer_name # None)
        keys == SortedWeekKeys({<<named[i].customer_name, named[i].lane, named[i].week_start>> :
                                   i \in DOMAIN named})
    IN  [k \in DOMAIN keys |->
            [week_start |-> keys[k][3]]
            @@ LaneRow(SelectSeq(named, LAMBDA r : r.week_start = keys[k][3]),
                       <<keys[k][1], keys[k][2]>>)]

\* the one element of a set of one element
Only(S) == CHOOSE x \in S : TRUE

\* transform_loads(raw_loads, customer_master) run at the time `now`; each
\* table is computed once, in the order of the statements
transform_loads(raw, master, now) ==
    Only({ Only({ Only({ Only({
        [ cleaned |-> completed_df,
          weekly |-> IF weekly0 # <<>>
                     THEN _add_wow_and_flags(weekly0, "week_start") ELSE weekly0,
          monthly |-> IF monthly1 # <<>> THEN _add_run_rate(monthly1, now) ELSE monthly1,
          lanes |-> IF completed_df # <<>> THEN LaneTable(completed_df) ELSE <<>>,
          customer_master |-> master ] :
        monthly1 \in {IF monthly0 # <<>>
                      THEN _add_wow_and_flags(monthly0, "month_start") ELSE monthly0} }) :
        monthly0 \in {_skeleton_join(completed_df, master, "month_start")} }) :
        weekly0 \in {_skeleton_join(completed_df, master, "week_start")} }) :
        completed_df \in {flatten_loads(raw)} })

\* raw loads: two that the normalizer drops (no completion timestamp, a day
\* that is not in the calendar), loads of a customer A in three weeks, one
\* of them with a null reference_number and an amount, a load of a customer
\* B, and a load whose fields are all null
PipeSamples ==
    { RawLoad(Absent, Absent, DetailPlain),
      RawLoad(Str(<<"2", "0", "2", "4", "-", "0", "2", "-", "3", "0", "T", "0", "0", ":", "0", "0", ":", "0", "0", "Z">>), Absent, DetailPlain),
      RawLoad(Str(<<"2", "0", "2", "4", "-", "0", "1", "-", "0", "1", "T", "0", "8", ":", "0", "0", ":", "0", "0", ".", "0", "0", "0", "Z">>), Absent, DetailPlain),
      RawLoad(Str(<<"2", "0", "2", "4", "-", "0", "3", "-", "0", "5", "T", "1", "0", ":", "0", "0", ":", "0", "0", "Z">>), Absent,
              [callerName |-> Str(<<"A">>), reference_number |-> None,
               totalAmount |-> Num(100)]),
      RawLoad(Str(<<"2", "0", "2", "4", "-", "0", "3", "-", "1", "2", "T", "1", "0", ":", "0", "0", ":", "0", "0", "Z">>), Absent,
              [callerName |-> Str(<<"A">>), reference_number |-> Str(<<"R", "5">>),
               totalAmount |-> Num(300)]),
      RawLoad(Str(<<"2", "0", "2", "4", "-", "0", "3", "-", "1", "3", "T", "1", "0", ":", "0", "0", ":", "0", "0", "Z">>), Absent,
              [callerName |-> Str(<<"B">>), reference_number |-> Str(<<"R", "6">>),
               totalAmount |-> Num(40)]),
      RawLoad(Str(<<"2", "0", "2", "4", "-", "0", "3", "-", "0", "3", "T", "2", "3", ":", "5", "9", ":", "5", "9", "Z">>), Absent,
              [callerName |-> None, reference_number |-> None, totalAmount |-> None,
               terminalHold |-> None, custom |-> None]) }

\* masters of the customers A and B of the raw loads: none, one, both, and
\* two customers named A
PipeMasters ==
    { <<>>,
      <<MasterRow(<<"c", "1">>, Str(<<"A">>), 2)>>,
      <<MasterRow(<<"c", "1">>, Str(<<"A">>), 2), MasterRow(<<"c", "9">>, Str(<<"B">>), 2)>>,
      <<MasterRow(<<"c", "1">>, Str(<<"A">>), 2), MasterRow(<<"c", "3">>, Str(<<"A">>), 2)>> }

\* days on which the pipeline runs: in a month of the loads and after it
PipeDays == { Strptime(<<"2", "0", "2", "4", "-", "0", "3", "-", "1", "4">>), Strptime(<<"2", "0", "2", "4", "-", "0", "4", "-", "1", "0">>) }

\* the week keys handed to the queries: the weeks of the loads and one more
WeekKeys(completed_df) ==
    {completed_df[i].week_start : i \in DOMAIN completed_df} \cup {AbsentWeek}

MaxPipe == 3

PipeInit ==
    /\ pc = "input"
    /\ raw_loads \in {r \in SeqsUpTo(PipeSamples, MaxPipe) :
                        \A i, j \in DOMAIN r : i < j => r[i] # r[j]}
    /\ customer_master \in PipeMasters
    /\ records = <<>> /\ data = <<>>
    /\ load_df = <<>> /\ period_col = "" /\ merged = <<>> /\ df = <<>>
    /\ QueryIdle /\ LoadIdle /\ ApiIdle

\* data = transform_loads(raw_loads, raw_customers)
TransformLoads ==
    /\ pc = "input"
    /\ \E now \in PipeDays :
           /\ today' = now
           /\ data' = transform_loads(raw_loads, customer_master, now)
    /\ pc' = "transformed"
    /\ UNCHANGED <<apiVars, loadVars, raw_loads, records, load_df, customer_master, period_col,
                   merged, df, again, selected_week, risks, lane_risks>>

\* compute_risk_flags(weekly_df, cleaned_df, week) and
\* compute_lane_risks(cleaned_df, week) on the tables returned, for a week key
QueryRisks ==
    /\ pc = "transformed"
    /\ \E week \in WeekKeys(data.cleaned) :
           /\ selected_week' = week
           /\ risks' = compute_risk_flags(data.weekly, week)
           /\ lane_risks' = compute_lane_risks(data.cleaned, week)
           /\ data' = [data EXCEPT !.weekly = WeeklyAfterRiskFlags(data.weekly, week)]
    /\ pc' = "queried"
    /\ UNCHANGED <<apiVars, loadVars, raw_loads, records, load_df, customer_master, period_col,
                   merged, df, again, today>>

\* the same calls once more, with the objects as the caller holds them now
\* and on the same day
RepeatCalls ==
    /\ pc = "queried"
    /\ again' = [ data |-> transform_loads(raw_loads, customer_master, today),
                  risks |-> compute_risk_flags(data.weekly, selected_week),
                  lane_risks |-> compute_lane_risks(data.cleaned, selected_week) ]
    /\ pc' = "repeated"
    /\ UNCHANGED <<apiVars, loadVars, flattenVars, load_df, customer_master, period_col,
                   merged, df, today, selected_week, risks, lane_risks>>

PipeNext == TransformLoads \/ QueryRisks \/ RepeatCalls

SpecPipe == PipeInit /\ [][PipeNext]_vars


-----------------------------------------------------------------------------
(* PortPro API client (src/dashboard/portpro_api.py): the authenticated    *)
(* request with its single retry, and the skip-based pagination of loads.  *)
(* Tokens are opaque strings; a load of the server is its position.        *)

BASE_URL == "https://api1.app.portpro.io/v1"

NoFile == <<>>
NoBody == <<>>

Bearer(token) == <<"Bearer", token>>

\* HTTP statuses the server answers with: success, unauthorized, another error
Statuses == {200, 401, 500}

\* resp.raise_for_status() raises for 4xx and 5xx
RaisesForStatus(status) == status >= 400

\* bodies of a successful GET /token
TokenBodies ==
    { [accessToken |-> "t1"],
      [access_token |-> "t2"],
      [accessToken |-> "t1", access_token |-> "t2"],
      [expires |-> "30d"] }

\* dict.get(key, default)
DictGet(d, key, default) == IF key \in DOMAIN d THEN d[key] ELSE default

\* data.get("accessToken", data.get("access_token", ""))
TokenOf(body) == DictGet(body, "accessToken", DictGet(body, "access_token", ""))

\* GET /loads?limit=&skip= : the loads from position skip on, at most
\* min(limit, page cap) of them
Min(a, b) == IF a <= b THEN a ELSE b

PageOf(srv, limit, offset) ==
    LET n == Min(Min(limit, srv.cap), Len(srv.loads) - offset)
    IN  IF n <= 0 THEN <<>> ELSE SubSeq(srv.loads, offset + 1, offset + n)

\* the JSON body of a successful answer to the data request of call c
ResponseJson(srv, c) ==
    IF c.endpoint = "/loads"
    THEN [count |-> Len(srv.loads), data |-> PageOf(srv, c.params.limit, c.params.skip)]
    ELSE [data |-> srv.customers]

\* self._session.request(method, url, params=params, json=json_body, timeout=30)
DataRequest(c, auth, status) ==
    [kind |-> "data", method |-> c.method, url |-> <<BASE_URL, c.endpoint>>,
     params |-> c.params, json |-> c.json_body, auth |-> auth, status |-> status]

\* self._session.get(f"{self.base_url}/token", headers={"Authorization": ...})
TokenRequest(token, status, body) ==
    [kind |-> "refresh", method |-> "GET", url |-> <<BASE_URL, "/token">>,
     params |-> NoBody, json |-> NoBody, auth |-> Bearer(token), status |-> status,
     answer |-> IF RaisesForStatus(status) THEN NoBody ELSE body]

\* _request(method, endpoint, params, json_body, retry) as called by `caller`,
\* with the access token and the config file as they are on entry
Call(caller, method, endpoint, params) ==
    [caller |-> caller, method |-> method, endpoint |-> endpoint,
     params |-> params, json_body |-> NoBody, retry |-> TRUE,
     token |-> access_token, file |-> config_file]

\* get_all_loads going on after a page shorter than page_size, until a page
\* is empty
AfterGetLoads_until_empty(json, log) ==
    LET loads == DictGet(json, "data", <<>>)
    IN  /\ pages' = [log EXCEPT ![Len(log)].got = Len(loads)]
        /\ UNCHANGED <<page_size, raw_customers>>
        /\ IF loads = <<>>
           THEN /\ pc' = "loaded"
                /\ UNCHANGED <<all_loads, skip>>
           ELSE /\ all_loads' = all_loads \o loads
                /\ skip' = skip + Len(loads)
                /\ pc' = "paging"

\* get_all_loads after get_loads returned `json`: stop on an empty page, else
\* accumulate, advance skip and stop on a page shorter than page_size; `log`
\* is the list of get_loads calls, the last of which gets its page length
AfterGetLoads(json, log) ==
    LET loads == DictGet(json, "data", <<>>)
    IN  /\ pages' = [log EXCEPT ![Len(log)].got = Len(loads)]
        /\ UNCHANGED <<page_size, raw_customers>>
        /\ IF loads = <<>>
           THEN /\ pc' = "loaded"
                /\ UNCHANGED <<all_loads, skip>>
           ELSE /\ all_loads' = all_loads \o loads
                /\ skip' = skip + Len(loads)
                /\ pc' = IF Len(loads) < page_size THEN "loaded" ELSE "paging"

\* get_customers after _request returned `json`
AfterGetCustomers(json, log) ==
    /\ raw_customers' = DictGet(json, "data", <<>>)
    /\ pc' = "done"
    /\ pages' = log
    /\ UNCHANGED <<page_size, skip, all_loads>>

\* the end of _request: raise_for_status(), then resp.json() goes to the caller
Finish(c, status, log) ==
    IF RaisesForStatus(status)
    THEN /\ pc' = "raised"
         /\ pages' = log
         /\ UNCHANGED <<page_size, skip, all_loads, raw_customers>>
    ELSE IF c.caller = "get_loads"
         THEN AfterGetLoads(ResponseJson(server, c), log)
         ELSE AfterGetCustomers(ResponseJson(server, c), log)

\* _request up to its first answer: a 401 with retry and a refresh token goes
\* on to the refresh, every other answer ends the call
FirstExchange(c, status, log) ==
    /\ call' = c
    /\ sent' = <<DataRequest(c, authorization, status)>>
    /\ UNCHANGED <<clientVars, server>>
    /\ IF status = 401 /\ c.retry /\ refresh_token # ""
       THEN /\ pc' = "refreshing"
            /\ pages' = log
            /\ UNCHANGED <<page_size, skip, all_loads, raw_customers>>
       ELSE Finish(c, status, log)

\* _refresh_access_token storing and saving the token of the answer before
\* it looks at the status of the answer
RefreshAccessToken_store_first(status, body, writable) ==
    /\ sent' = Append(sent, TokenRequest(refresh_token, status, body))
    /\ UNCHANGED <<refresh_token, server, call, pagingVars>>
    /\ access_token' = TokenOf(body)
    /\ authorization' = Bearer(TokenOf(body))
    /\ config_file' = IF writable
                      THEN [access_token |-> TokenOf(body),
                            refresh_token |-> refresh_token]
                      ELSE config_file
    /\ pc' = IF refresh_token = "" \/ RaisesForStatus(status)
             THEN "raised" ELSE "reissuing"

\* _refresh_access_token: GET /token with the refresh token; an error answer
\* raises before anything is assigned; else the new token is stored, put in
\* the session header and saved, a failing write being swallowed
RefreshAccessToken(status, body, writable) ==
    /\ sent' = Append(sent, TokenRequest(refresh_token, status, body))
    /\ UNCHANGED <<refresh_token, server, call, pagingVars>>
    /\ IF refresh_token = "" \/ RaisesForStatus(status)
       THEN /\ pc' = "raised"
            /\ UNCHANGED <<access_token, authorization, config_file>>
       ELSE /\ access_token' = TokenOf(body)
            /\ authorization' = Bearer(TokenOf(body))
            /\ config_file' = IF writable
                              THEN [access_token |-> TokenOf(body),
                                    refresh_token |-> refresh_token]
                              ELSE config_file
            /\ pc' = "reissuing"

MaxServerLoads == 3
MaxCap == 2
MaxPageSize == 3

Servers ==
    { [loads |-> [i \in 1..n |-> i], cap |-> cap, customers |-> <<"c1">>] :
        n \in 0..MaxServerLoads, cap \in 1..MaxCap }

\* load_live_data: a configured client (is_configured), with or without a
\* refresh token, its tokens read from .env.json or from the environment
ApiInit ==
    /\ pc = "input"
    /\ access_token = "t0"
    /\ refresh_token \in {"", "r0"}
    /\ authorization = Bearer(access_token)
    /\ config_file \in {NoFile, [access_token |-> access_token,
                                 refresh_token |-> refresh_token]}
    /\ server \in Servers
    /\ call = <<>> /\ sent = <<>>
    /\ page_size = 0 /\ skip = 0 /\ all_loads = <<>> /\ pages = <<>>
    /\ raw_customers = <<>>
    /\ LoadIdle /\ FlattenIdle /\ AggIdle

otherVars == <<loadVars, flattenVars, aggVars>>

\* get_all_loads(page_size): all_loads = [], skip = 0
GetAllLoads ==
    /\ pc = "input"
    /\ \E size \in 0..MaxPageSize : page_size' = size
    /\ skip' = 0
    /\ all_loads' = <<>>
    /\ pc' = "paging"
    /\ UNCHANGED <<clientVars, server, call, sent, pages, raw_customers, otherVars>>

\* one turn of the loop: get_loads(limit=page_size, skip=skip), to the first
\* answer of its _request
GetLoads ==
    /\ pc = "paging"
    /\ \E status \in Statuses :
          FirstExchange(Call("get_loads", "GET", "/loads",
                             [limit |-> page_size, skip |-> skip]),
                        status,
                        Append(pages, [limit |-> page_size, skip |-> skip,
                                       held |-> Len(all_loads), got |-> -1]))
    /\ UNCHANGED otherVars

\* _request, line 102: the refresh after a 401
Refresh ==
    /\ pc = "refreshing"
    /\ \E status \in Statuses, body \in TokenBodies, writable \in BOOLEAN :
          RefreshAccessToken(status, body, writable)
    /\ UNCHANGED otherVars

\* _request, lines 103-105: the same request once more, whose answer is final
Reissue ==
    /\ pc = "reissuing"
    /\ \E status \in Statuses :
          /\ sent' = Append(sent, DataRequest(call, authorization, status))
          /\ Finish(call, status, pages)
    /\ UNCHANGED <<clientVars, server, call, otherVars>>

\* get_customers(), once get_all_loads has returned, to the first answer
GetCustomers ==
    /\ pc = "loaded"
    /\ \E status \in Statuses :
          FirstExchange(Call("get_customers", "GET", "/customer", NoBody), status, pages)
    /\ UNCHANGED otherVars

ApiNext == GetAllLoads \/ GetLoads \/ Refresh \/ Reissue \/ GetCustomers

SpecApi == ApiInit /\ [][ApiNext]_vars

\* the client runs on, and the server answers every request
SpecApiFair == SpecApi /\ WF_vars(ApiNext)
-----------------------------------------------------------------------------
(* The dashboard: transform_loads, then the queries on its tables *)

MaxDashLoads == 2
MaxDashPeriods == 3

DashInputs ==
    SeqsUpTo(JoinRows, MaxDashLoads)
    \cup UNION {{SeriesRows(SubSeq(c, 1, np), SubSeq(c, np + 1, 2 * np), np) :
                    c \in CountSeqs(2 * np, MaxSeriesLoads)} : np \in 1..MaxDashPeriods}
    \cup ScenarioInputs \cup QueryScenarios

\* masters of two customers in either order, and of two customers of one name
DashMasters == {m \in Masters : Len(m) = 2}

DashInit ==
    /\ pc = "input"
    /\ load_df \in DashInputs
    /\ customer_master \in DashMasters
    /\ period_col \in PeriodCols
    /\ merged = <<>> /\ df = <<>>
    /\ QueryIdle /\ LoadIdle /\ FlattenIdle /\ ApiIdle

DashNext ==
    \/ SkeletonJoin
    \/ AddWowAndFlags
    \/ Reannotate
    \/ AddRunRate
    \/ ComputeRiskFlags
    \/ ComputeLaneRisks

SpecDash == DashInit /\ [][DashNext]_vars

-----------------------------------------------------------------------------
(* Properties of the record normalizer (SpecFlatten)                        *)

\* the completion timestamp of a raw load: loadCompletedAt, or loadCompletedDate
\* when the former is absent, null or empty
CompletionTimestamp(ld) ==
    IF Truthy(Get(ld, "loadCompletedAt", None))
    THEN Get(ld, "loadCompletedAt", None)
    ELSE Get(ld, "loadCompletedDate", None)

HasTimestamp(ld) == Truthy(CompletionTimestamp(ld))

DateParses(ld) == Strptime(Prefix(CompletionTimestamp(ld).v, 10)).ok

IsDelivered(ld) == HasTimestamp(ld) /\ DateParses(ld)

\* the raw loads that must be emitted, in input order
Delivered == SelectSeq(raw_loads, IsDelivered)

\* a date written as YYYY-MM-DD, read by position
IsIsoDate(s) ==
    /\ Len(s) = 10
    /\ \A i \in {1, 2, 3, 4, 6, 7, 9, 10} : IsDigit(s[i])
    /\ s[5] = "-" /\ s[8] = "-"

IsoDate(s) ==
    [ y |-> DigitVal(s[1]) * 1000 + DigitVal(s[2]) * 100 + DigitVal(s[3]) * 10 + DigitVal(s[4]),
      m |-> DigitVal(s[6]) * 10 + DigitVal(s[7]),
      d |-> DigitVal(s[9]) * 10 + DigitVal(s[10]) ]

IsCalendarDay(dt) ==
    dt.y >= 1 /\ dt.m \in 1..12 /\ dt.d >= 1 /\ dt.d <= DaysInMonth(dt.y, dt.m)

\* 1 January 2024 was a Monday
KnownMonday == [y |-> 2024, m |-> 1, d |-> 1]

IsMonday(dt) == (ToOrdinal(dt) - ToOrdinal(KnownMonday)) % 7 = 0

NumberOrZero(ld, k) == IF k \in DOMAIN ld /\ ld[k].t = "num" THEN ld[k].v ELSE 0

-----------------------------------------------------------------------------
(* Properties of cargo-owner attribution (SpecBco)                          *)

IsImportLoad(ld) ==
    \/ Get(ld, "type_of_load", Str(<<>>)) = Str(LitImport)
    \/ Contains(LitMarkM, PyStr(Get(ld, "reference_number", Str(<<>>))))

IsRoadLoad(ld) ==
    \/ Get(ld, "type_of_load", Str(<<>>)) = Str(LitRoad)
    \/ Contains(LitMarkR, PyStr(Get(ld, "reference_number", Str(<<>>))))

ConsigneeName(ld) == Get(ld, "consigneeName", Str(<<>>))
ShipperName(ld) == Get(ld, "shipperName", Str(<<>>))

NameOrPlaceholder(name) == IF Truthy(name) THEN name ELSE Str(LitUnknownBco)

\* C6 as stated: consignee name for an import, else shipper name for a road
\* load, else "Direct"; the result is always one of those three values.
C6_AsStated ==
    pc = "derived" =>
        /\ bco = IF IsImportLoad(load) THEN ConsigneeName(load)
                 ELSE IF IsRoadLoad(load) THEN ShipperName(load)
                 ELSE Str(LitDirect)
        /\ bco \in {ConsigneeName(load), ShipperName(load), Str(LitDirect)}

\* C6 (amended): consignee name for an import (type "IMPORT" or "_M" in the
\* reference), else shipper name for a road load (type "ROAD" or "_R" in the
\* reference), else "Direct"; the import test wins when both match; a chosen
\* name that is absent, null or empty is replaced by "Unknown BCO".
C6_Attribution ==
    pc = "derived" =>
        /\ bco = IF IsImportLoad(load) THEN NameOrPlaceholder(ConsigneeName(load))
                 ELSE IF IsRoadLoad(load) THEN NameOrPlaceholder(ShipperName(load))
                 ELSE Str(LitDirect)
        /\ bco \in {ConsigneeName(load), ShipperName(load), Str(LitDirect), Str(LitUnknownBco)}

\* both tests match, the consignee name is missing and the shipper name is not
C6_Witness ==
    /\ pc = "derived"
    /\ IsImportLoad(load) /\ IsRoadLoad(load)
    /\ ~Truthy(ConsigneeName(load)) /\ Truthy(ShipperName(load))
    /\ bco = Str(LitUnknownBco)

-----------------------------------------------------------------------------
(* Properties of the location resolver (SpecLoc)                            *)

NormalName(ld, k) == Strip(Upper(PyStr(Get(ld, k, Str(<<>>)))))

\* neither the address, the terminal table nor the " - " separator resolves
NothingResolves(ld, addressKey, nameKey) ==
    /\ parse_city_state_from_address(Get(ld, addressKey, Str(<<>>)))[1] = LitUnknown
    /\ NormalName(ld, nameKey) \notin DOMAIN TERMINAL_CITY_MAP
    /\ ~Contains(LitSep, NormalName(ld, nameKey))

IsCityState(p) == p \in Seq(STRING) \X Seq(STRING)

\* C7 as stated: always a (city, state) pair, and ("Unknown", s) with one and
\* the same s for pickup and delivery when nothing resolves.
C7_AsStated ==
    pc = "resolved" =>
        /\ IsCityState(pickup) /\ IsCityState(delivery)
        /\ \E s \in {LitNoState, LitCA} :
              /\ NothingResolves(load, "shipperAddress", "shipperName")
                    => pickup = <<LitUnknown, s>>
              /\ NothingResolves(load, "consigneeAddress", "consigneeName")
                    => delivery = <<LitUnknown, s>>

\* C7 (amended): always a (city, state) pair; when nothing resolves the pickup
\* is ("Unknown", "CA") and the delivery is ("Unknown", "??").
C7_TotalChain ==
    pc = "resolved" =>
        /\ IsCityState(pickup) /\ IsCityState(delivery)
        /\ NothingResolves(load, "shipperAddress", "shipperName")
              => pickup = <<LitUnknown, LitCA>>
        /\ NothingResolves(load, "consigneeAddress", "consigneeName")
              => delivery = <<LitUnknown, LitNoState>>

\* a load whose address fields are null and whose name fields are missing
C7_Witness ==
    /\ pc = "resolved"
    /\ "shipperAddress" \in DOMAIN load /\ load["shipperAddress"] = None
    /\ "consigneeAddress" \in DOMAIN load /\ load["consigneeAddress"] = None
    /\ "shipperName" \notin DOMAIN load
    /\ "consigneeName" \notin DOMAIN load
    /\ pickup = <<LitUnknown, LitCA>>
    /\ delivery = <<LitUnknown, LitNoState>>

-----------------------------------------------------------------------------
(* Properties of the period aggregator (SpecAgg)                            *)

\* the periods present in the load set
PeriodsPresent == {load_df[i][period_col] : i \in DOMAIN load_df}

\* the rows of a table that belong to the m-th master entity in period p
RowsOf(table, m, p) ==
    {i \in DOMAIN table :
        /\ table[i].customer_id = customer_master[m].id
        /\ table[i].customer_name = customer_master[m].name
        /\ table[i][period_col] = p}

\* the loads the load set holds for a customer name in a period
LoadsOf(name, p) ==
    {i \in DOMAIN load_df : load_df[i].customer_name = name /\ load_df[i][period_col] = p}

Joined == pc \in {"joined", "annotated"}

\* C1: for a non-empty master and a non-empty load set, the output of
\* _skeleton_join has exactly one row for every pair of a master entity and a
\* period present in the load set, also when the entity has no load in that
\* period, and it has no other row.
C1_AlwaysVisible ==
    (Joined /\ load_df # <<>> /\ customer_master # <<>>) =>
        /\ \A m \in DOMAIN customer_master : \A p \in PeriodsPresent :
               Cardinality(RowsOf(merged, m, p)) = 1
        /\ \A i \in DOMAIN merged :
               \E m \in DOMAIN customer_master : \E p \in PeriodsPresent :
                   i \in RowsOf(merged, m, p)

\* two master entities over two periods: four rows, one of them of an entity
\* without a load in its period
C1_Witness ==
    /\ pc = "joined"
    /\ Len(customer_master) = 2 /\ Cardinality(PeriodsPresent) = 2
    /\ Len(merged) = 4
    /\ \E i \in DOMAIN merged :
           LoadsOf(merged[i].customer_name, merged[i][period_col]) = {}

\* C2: a row of the output of _skeleton_join whose entity has no load in the
\* row's period has 0 loads, 0 revenue, 0 average revenue and 0 uncontrollable
\* events, and its on-time pickup and delivery rates are the "no data"
\* sentinel, not 0; a row with at least one load has both rates defined.
C2_ZeroFill ==
    Joined =>
        \A i \in DOMAIN merged :
            LET r == merged[i] IN
            IF LoadsOf(r.customer_name, r[period_col]) = {}
            THEN /\ r.loads = 0 /\ r.revenue = 0 /\ r.uncontrollable_events = 0
                 /\ r.avg_revenue = Frac(0, 1)
                 /\ r.otp = NaN /\ r.otd = NaN
                 /\ r.otp # Frac(0, 1) /\ r.otd # Frac(0, 1)
            ELSE r.otp # NaN /\ r.otd # NaN

\* a row without loads, its rates the sentinel, beside a row whose one load
\* was late, its delivery rate a true 0
C2_Witness ==
    /\ pc = "joined"
    /\ \E i \in DOMAIN merged :
           /\ LoadsOf(merged[i].customer_name, merged[i][period_col]) = {}
           /\ merged[i].otd = NaN
    /\ \E i \in DOMAIN merged :
           /\ LoadsOf(merged[i].customer_name, merged[i][period_col]) # {}
           /\ merged[i].otd = Frac(0, 1)

-----------------------------------------------------------------------------
(* Properties of the trend and change engine (SpecAgg)                      *)

\* the master entity a row of the aggregates stands for
SameEntity(a, b) == a.customer_id = b.customer_id /\ a.customer_name = b.customer_name

\* the rows of the entity of row i in the periods before that of row i
EarlierRows(i) ==
    {j \in DOMAIN df : SameEntity(df[j], df[i]) /\ StrLess(df[j][period_col], df[i][period_col])}

\* the rows of the n periods of the entity that come last before row i
PrecedingRows(i, n) ==
    {j \in EarlierRows(i) :
        Cardinality({h \in EarlierRows(i) : StrLess(df[j][period_col], df[h][period_col])}) < n}

\* x is the quotient n/d rounded to one decimal
IsRounded1(x, n, d) == x.t = "dec1" /\ 2 * Abs(10 * n - x.v * d) <= d

\* C8: per entity, in period order, prev_loads is the load count of the
\* preceding row and absent in the entity's first period; change_pct is
\* (current - previous) / previous x 100 rounded to one decimal when the
\* previous count is above 0; change_pct is undefined and change_label is
\* "NEW" when there is no previous period or the previous count was 0.
C8_AsStated ==
    pc = "annotated" =>
        \A i \in DOMAIN df :
            LET r == df[i]
                before == PrecedingRows(i, 1)
            IN  /\ before = {} => r.prev_loads = NaN
                /\ \A j \in before :
                       /\ r.prev_loads = Num(df[j].loads)
                       /\ df[j].loads > 0 =>
                              IsRounded1(r.change_pct, (r.loads - df[j].loads) * 100, df[j].loads)
                       /\ df[j].loads = 0 => r.change_pct = NaN /\ r.change_label = LitNew
                /\ before = {} => r.change_pct = NaN /\ r.change_label = LitNew

\* C9: trailing_4_avg of the k-th period of an entity is the mean of the
\* entity's load counts in the min(4, k-1) periods right before it, without
\* the count of the current period or of another entity, and it is undefined
\* exactly in the entity's first period.
C9_AsStated ==
    pc = "annotated" =>
        \A i \in DOMAIN df :
            LET window == PrecedingRows(i, 4)
            IN  IF EarlierRows(i) = {}
                THEN df[i].trailing_4_avg = NaN
                ELSE df[i].trailing_4_avg = Frac(SumLoadsAt(df, window), Cardinality(window))

\* the periods of the aggregates, and the first of them
PeriodsOf(table) == {table[i][period_col] : i \in DOMAIN table}

IsFirstPeriod(p, table) == \A q \in PeriodsOf(table) : ~StrLess(q, p)

\* current > 1.10 x n/d and current < 0.90 x n/d, in whole numbers
ExceedsBy10(current, avg) == 10 * current * avg.d > 11 * avg.n
FallsShortBy10(current, avg) == 10 * current * avg.d < 9 * avg.n

-----------------------------------------------------------------------------
(* Properties of a second application of the trend engine (SpecDash)         *)

\* the base columns of a row and the columns the engine derives from them
BaseAndDerived(r) ==
    [ customer_name |-> r.customer_name, period |-> r[period_col],
      loads |-> r.loads, otd |-> r.otd,
      prev_loads |-> r.prev_loads, change_pct |-> r.change_pct,
      change_label |-> r.change_label, trailing_4_avg |-> r.trailing_4_avg,
      volume_trend |-> r.volume_trend, service_risk |-> r.service_risk ]

Projection(table) == [i \in DOMAIN table |-> BaseAndDerived(table[i])]

\* C11: _add_wow_and_flags applied to a table it has annotated, its rows in
\* any order, derives prev_loads, change_pct, change_label, trailing_4_avg,
\* volume_trend and service_risk as the first application did: the result
\* depends on the base columns only.
C11_TrendIdempotent ==
    pc = "reannotated" => Projection(again.result) = Projection(df)

\* a table of several periods of one customer handed over in another order
\* than the sorted one, with a change and an average derived in it
C11_Witness ==
    /\ pc = "reannotated"
    /\ again.given # df
    /\ \E i \in DOMAIN df : df[i].change_pct # NaN /\ df[i].trailing_4_avg # NaN
    /\ \E i \in DOMAIN df : df[i].volume_trend = LitDown

-----------------------------------------------------------------------------
(* Properties of the run-rate projector (SpecDash)                           *)

\* the row is of the calendar month of today
OfCurrentMonth(r) == IsoDate(r.month_start) = [y |-> today.y, m |-> today.m, d |-> 1]

\* C12: with days_elapsed the day of the month of today and days_in_month the
\* number of days of that month, a row of the current month has
\* run_rate_loads = floor(loads / days_elapsed x days_in_month) and
\* run_rate_revenue = round(revenue / days_elapsed x days_in_month); any other
\* row has run_rate_loads = loads and run_rate_revenue = revenue; and
\* is_current_month is true exactly in the rows of the current month.
C12_AsStated ==
    pc = "projected" =>
        \A i \in DOMAIN df :
            LET r == df[i]
                days_elapsed == today.d
                days_in_month == DaysInMonth(today.y, today.m)
            IN  /\ r.is_current_month <=> OfCurrentMonth(r)
                /\ IF OfCurrentMonth(r)
                   THEN /\ r.run_rate_loads = (r.loads * days_in_month) \div days_elapsed
                        /\ 2 * Abs(r.run_rate_revenue * days_elapsed - r.revenue * days_in_month)
                               <= days_elapsed
                   ELSE r.run_rate_loads = r.loads /\ r.run_rate_revenue = r.revenue

\* C13: a row of the current month with loads > 0 has run_rate_loads >= loads
\* whenever days_elapsed < days_in_month.
C13_RunRateMonotone ==
    pc = "projected" =>
        \A i \in DOMAIN df :
            (/\ df[i].is_current_month
             /\ df[i].loads > 0
             /\ today.d < DaysInMonth(today.y, today.m))
                => df[i].run_rate_loads >= df[i].loads

\* on the 30th of a December a customer's 3 loads project to 3, beside rows
\* of past months
C13_Witness ==
    /\ pc = "projected"
    /\ today.m = 12 /\ today.d = 30
    /\ \E i \in DOMAIN df :
           /\ df[i].is_current_month /\ df[i].loads = 3 /\ df[i].run_rate_loads = 3
    /\ \E i \in DOMAIN df : ~df[i].is_current_month /\ df[i].loads > 0

-----------------------------------------------------------------------------
(* Divisions (SpecDash)                                                     *)

\* the table df carries the columns of the trend engine
Annotated == pc \in {"annotated", "reannotated", "projected", "flagged", "attributed"}

\* the run-rate columns repeat the actual values
PassedThrough(table) ==
    \A i \in DOMAIN table :
        /\ table[i].run_rate_loads = table[i].loads
        /\ table[i].run_rate_revenue = table[i].revenue

\* C14: no division by zero: a row whose previous count is 0 or missing has
\* the missing value as change_pct; every row of a selected week of total
\* revenue 0 has revenue_share 0; and with days_elapsed = 0 the run-rate
\* columns are the actual loads and revenue. (today.day is 1 at least, so the
\* last case is the branch of _add_run_rate evaluated on the monthly table.)
C14_NoDivisionByZero ==
    /\ Annotated =>
           \A i \in DOMAIN df :
               (IsNaN(df[i].prev_loads) \/ df[i].prev_loads = Num(0)) => IsNaN(df[i].change_pct)
    /\ (pc = "flagged" /\ SumOf(risks.current, "revenue") = 0) =>
           \A i \in DOMAIN risks.current : risks.current[i].revenue_share = Frac(0, 1)
    /\ (pc = "annotated" /\ period_col = "month_start") =>
           \A now \in Todays :
               PassedThrough(RunRateColumns(df, StrftimeMonth(now), 0, DaysInCurrentMonth(now)))

\* a selected week in which two customers have no revenue, one of them after
\* a week of no loads, the other after a week of loads
C14_Witness ==
    /\ pc = "flagged"
    /\ Len(risks.current) >= 2
    /\ SumOf(risks.current, "revenue") = 0
    /\ \E i \in DOMAIN risks.current : risks.current[i].prev_loads = Num(0)
    /\ \E i \in DOMAIN risks.current : risks.current[i].prev_loads = Num(1)
    /\ \E i \in DOMAIN df : IsNaN(df[i].prev_loads)

-----------------------------------------------------------------------------
(* Properties of the risk flag engine (SpecDash)                            *)

\* the weeks of the weekly table
Weeks == {df[i].week_start : i \in DOMAIN df}

\* the weeks before the selected one with fewer than 12 weeks in between
Window ==
    IF selected_week \notin Weeks THEN {}
    ELSE {w \in Weeks :
            /\ StrLess(w, selected_week)
            /\ Cardinality({x \in Weeks : StrLess(w, x) /\ StrLess(x, selected_week)}) < 12}

\* the loads of the customer of row r over the window
WindowLoads(r) ==
    LET window == Window
    IN  SumOf(SelectSeq(df, LAMBDA x : x.customer_id = r.customer_id
                                        /\ x.week_start \in window),
              "loads")

\* the number of rows of a table that satisfy P
CountRows(table, P(_)) == Cardinality({i \in DOMAIN table : P(table[i])})

\* the number of times the flag stands in a flag string
Occurrences(flag, flags) == Cardinality({k \in 1..Len(flags) : OccursAt(flag, flags, k)})

\* the customer names of the selected week
CurrentNames == {risks.current[i].customer_name : i \in DOMAIN risks.current}

IsStale(r) == r.loads = 0 /\ WindowLoads(r) > 0

\* C15: the customers of a name with 0 loads in the selected week and loads
\* in the trailing window have one output row each, with STALE ACCOUNT in
\* its flag string exactly once; no customer has more than one output row,
\* and no other row carries STALE ACCOUNT.
C15_StaleAccount ==
    pc = "flagged" =>
        /\ \A n \in CurrentNames :
               /\ CountRows(risks.rows, LAMBDA o : o.customer_name = n
                                                    /\ Occurrences(FlagStale, o.risk_flag) = 1)
                      = CountRows(risks.current, LAMBDA r : r.customer_name = n /\ IsStale(r))
               /\ CountRows(risks.rows, LAMBDA o : o.customer_name = n)
                      <= CountRows(risks.current, LAMBDA r : r.customer_name = n)
        /\ \A i \in DOMAIN risks.rows :
               /\ risks.rows[i].customer_name \in CurrentNames
               /\ Occurrences(FlagStale, risks.rows[i].risk_flag) <= 1

\* a week in which one customer is stale and another, without loads in the
\* week and in the window, has no row, before a week in which the first
\* customer has loads again
C15_Witness ==
    /\ pc = "flagged"
    /\ \E i \in DOMAIN risks.rows : Occurrences(FlagStale, risks.rows[i].risk_flag) = 1
    /\ \E i \in DOMAIN risks.current :
           /\ risks.current[i].loads = 0
           /\ \A j \in DOMAIN risks.rows :
                  risks.rows[j].customer_name # risks.current[i].customer_name
    /\ \E i \in DOMAIN df :
           /\ StrLess(selected_week, df[i].week_start) /\ df[i].loads > 0
           /\ \E j \in DOMAIN risks.rows : risks.rows[j].customer_name = df[i].customer_name

\* the longest run of weeks of the table that ends right before the selected
\* week, 12 weeks at most, as a sorted list
Preceding == SortedStrings(Window)

\* C16: trailing_weeks is the list of the up to 12 weeks that stand right
\* before the selected week in the sorted list of the distinct weeks of the
\* weekly table, whatever the calendar distance; it never holds the selected
\* week and is empty for the earliest week; and a customer without loads in
\* the selected week is flagged stale iff its loads over these weeks add up
\* to more than 0.
C16_TrailingHistory ==
    pc = "flagged" =>
        /\ risks.trailing_weeks = Preceding
        /\ Len(risks.trailing_weeks) <= 12
        /\ \A k \in DOMAIN risks.trailing_weeks : risks.trailing_weeks[k] # selected_week
        /\ (\A w \in Weeks : ~StrLess(w, selected_week)) => risks.trailing_weeks = <<>>
        /\ \A n \in CurrentNames :
               (\E i \in DOMAIN risks.rows :
                    /\ risks.rows[i].customer_name = n
                    /\ Contains(FlagStale, risks.rows[i].risk_flag))
               <=> \E i \in DOMAIN risks.current :
                       /\ risks.current[i].customer_name = n
                       /\ risks.current[i].loads = 0
                       /\ WindowLoads(risks.current[i]) > 0

\* the 14th week of a table: the window is the 12 weeks before it, over a
\* calendar gap; the customer last active in the 2nd week is stale and the
\* customer last active in the 1st week is not
C16_Witness ==
    /\ pc = "flagged"
    /\ Cardinality(Weeks) = 14
    /\ \A w \in Weeks : ~StrLess(selected_week, w)
    /\ Len(risks.trailing_weeks) = 12
    /\ risks.trailing_weeks[8] = SeriesMondays[9] /\ risks.trailing_weeks[7] = SeriesMondays[8]
    /\ \E i \in DOMAIN risks.rows : risks.rows[i].risk_flag = FlagStale
    /\ \E i \in DOMAIN risks.current :
           /\ \A j \in DOMAIN risks.rows :
                  risks.rows[j].customer_name # risks.current[i].customer_name
           /\ \E j \in DOMAIN df :
                  df[j].customer_id = risks.current[i].customer_id /\ df[j].loads > 0

\* the revenue of all customers in the selected week
WeekRevenue == SumOf(risks.current, "revenue")

\* the row holds 5% of the revenue of the week at least
HighRevenue(r) == WeekRevenue > 0 /\ r.revenue * 100 >= 5 * WeekRevenue

PoorService(r) == HighRevenue(r) /\ ~IsNaN(r.otd) /\ r.otd.n * 100 < 90 * r.otd.d

Declining(r) == HighRevenue(r) /\ ~IsNaN(r.change_pct) /\ r.change_pct.v < -200

\* as many output rows of the name carry the flag as rows of the selected
\* week of that name satisfy the rule
FlaggedIff(flag, Rule(_)) ==
    \A n \in CurrentNames :
        CountRows(risks.rows, LAMBDA o : o.customer_name = n /\ Contains(flag, o.risk_flag))
            = CountRows(risks.current, LAMBDA r : r.customer_name = n /\ Rule(r))

\* C17: revenue_share is the revenue of the row over the revenue of the
\* selected week, times 100, and 0 when the week has no revenue; HIGH REVENUE
\* + POOR SERVICE is flagged iff the share is 5 at least and otd is a number
\* below 0.90; HIGH REVENUE + DECLINING VOLUME iff the share is 5 at least and
\* change_pct is a number below -20; a missing otd or change_pct triggers
\* neither.
C17_HighRevenueRules ==
    pc = "flagged" =>
        /\ \A i \in DOMAIN risks.current :
               risks.current[i].revenue_share
                   = IF WeekRevenue > 0
                     THEN Frac(risks.current[i].revenue * 100, WeekRevenue) ELSE Frac(0, 1)
        /\ FlaggedIff(FlagPoorService, PoorService)
        /\ FlaggedIff(FlagDeclining, Declining)

\* a week in which one customer holds its share with a late load and no
\* previous loads, and the other lost more than 20% of its loads on time
C17_Witness ==
    /\ pc = "flagged"
    /\ \E i \in DOMAIN risks.rows : risks.rows[i].risk_flag = FlagPoorService
    /\ \E i \in DOMAIN risks.rows : risks.rows[i].risk_flag = FlagDeclining
    /\ \E i \in DOMAIN risks.current :
           IsNaN(risks.current[i].change_pct) /\ HighRevenue(risks.current[i])

SharpDrop(r) == ~IsNaN(r.change_pct) /\ r.change_pct.v < -300

BelowAverage(r) ==
    /\ ~IsNaN(r.trailing_4_avg)
    /\ r.trailing_4_avg.n > 0
    /\ 100 * r.loads * r.trailing_4_avg.d < 70 * r.trailing_4_avg.n

\* C18: SHARP WOW DROP is flagged iff change_pct is a number below -30, and
\* BELOW TRAILING AVERAGE iff trailing_4_avg is above 0 and the loads are
\* below 0.70 x trailing_4_avg, each whatever the other rule finds; after
\* weeks of 20, 18 and 22 loads a week of 5 loads carries both flags.
C18_DropRules ==
    pc = "flagged" =>
        /\ FlaggedIff(FlagSharpDrop, SharpDrop)
        /\ FlaggedIff(FlagBelowAvg, BelowAverage)
        /\ \A i \in DOMAIN risks.current :
               LET r == risks.current[i]
                   before == SelectSeq(df, LAMBDA x : x.customer_id = r.customer_id
                                                      /\ StrLess(x.week_start, selected_week))
               IN  (/\ Len(customer_master) = Cardinality({customer_master[k].name :
                                                               k \in DOMAIN customer_master})
                    /\ [k \in DOMAIN before |-> before[k].loads] = <<20, 18, 22>>
                    /\ r.loads = 5)
                   => \E j \in DOMAIN risks.rows :
                          /\ risks.rows[j].customer_name = r.customer_name
                          /\ Contains(FlagSharpDrop, risks.rows[j].risk_flag)
                          /\ Contains(FlagBelowAvg, risks.rows[j].risk_flag)

\* the fourth week of 20, 18, 22, 5: a row with both flags
C18_Witness ==
    /\ pc = "flagged"
    /\ \E i \in DOMAIN risks.current :
           /\ risks.current[i].loads = 5
           /\ risks.current[i].prev_loads = Num(22)
           /\ risks.current[i].trailing_4_avg = Frac(20, 1)
    /\ \E j \in DOMAIN risks.rows :
           /\ risks.rows[j].weekly_loads = 5
           /\ Contains(FlagSharpDrop \o LitBar \o FlagBelowAvg, risks.rows[j].risk_flag)

\* each of the two flags stands without the other: a customer that lost
\* half of its loads and is at its average, in a week in which the other
\* lost 30% and is at 70% of its average and has no row
C18_Apart ==
    /\ pc = "flagged"
    /\ \E j \in DOMAIN risks.rows :
           /\ Contains(FlagSharpDrop, risks.rows[j].risk_flag)
           /\ ~Contains(FlagBelowAvg, risks.rows[j].risk_flag)
    /\ \E i \in DOMAIN risks.current :
           /\ risks.current[i].change_pct = Dec1(-300)
           /\ risks.current[i].trailing_4_avg = Frac(10, 1)
           /\ risks.current[i].loads = 7

\* the labels of the rules a row of the selected week triggers, in the order
\* STALE ACCOUNT, POOR SERVICE, DECLINING VOLUME, SHARP WOW DROP, BELOW
\* TRAILING AVERAGE
Triggered(r) ==
    (IF IsStale(r) THEN <<FlagStale>> ELSE <<>>)
    \o (IF PoorService(r) THEN <<FlagPoorService>> ELSE <<>>)
    \o (IF Declining(r) THEN <<FlagDeclining>> ELSE <<>>)
    \o (IF SharpDrop(r) THEN <<FlagSharpDrop>> ELSE <<>>)
    \o (IF BelowAverage(r) THEN <<FlagBelowAvg>> ELSE <<>>)

\* C19: the output has one row for each row of the selected week that
\* triggers at least one rule and no other row, and the flag string of the
\* row is the labels of the triggered rules, each once, joined by " | " in
\* the order STALE ACCOUNT, HIGH REVENUE + POOR SERVICE, HIGH REVENUE +
\* DECLINING VOLUME, SHARP WOW DROP, BELOW TRAILING AVERAGE, in whatever
\* order the rows of the weekly table are given.
C19_FlagString ==
    pc = "flagged" =>
        LET triggered == [i \in DOMAIN risks.current |-> Triggered(risks.current[i])]
            name(i) == risks.current[i].customer_name
        IN  /\ Len(risks.rows) = Cardinality({i \in DOMAIN triggered : triggered[i] # <<>>})
            /\ \A i \in DOMAIN risks.rows : risks.rows[i].customer_name \in CurrentNames
            /\ \A i \in DOMAIN triggered :
                   triggered[i] # <<>> =>
                       CountRows(risks.rows,
                                 LAMBDA o : o.customer_name = name(i)
                                            /\ o.risk_flag = Join(triggered[i], LitBar))
                           = Cardinality({j \in DOMAIN triggered :
                                              name(j) = name(i) /\ triggered[j] = triggered[i]})

\* the rows of a week given in another order than the sorted one: a row of
\* three flags and a customer without a row
C19_Witness ==
    /\ pc = "flagged"
    /\ Len(risks.current) = 2
    /\ StrLess(risks.current[2].customer_name.v, risks.current[1].customer_name.v)
    /\ Len(risks.rows) = 1
    /\ risks.rows[1].risk_flag
           = FlagStale \o LitBar \o FlagSharpDrop \o LitBar \o FlagBelowAvg

-----------------------------------------------------------------------------
(* Properties of the lane-level attribution (SpecDash)                      *)

\* the loads of the selected week that have a customer
WeekLoads ==
    SelectSeq(load_df, LAMBDA l : l.week_start = selected_week /\ l.customer_name # None)

\* the loads of the selected week of the customer and lane of a row
LoadsOfLane(o) ==
    SelectSeq(WeekLoads, LAMBDA l : l.customer_name = o.customer_name /\ l.lane = o.lane)

\* one row per customer and lane with a load in the selected week
OnePerLane ==
    /\ {<<lane_risks[i].customer_name, lane_risks[i].lane>> : i \in DOMAIN lane_risks}
           = {<<WeekLoads[k].customer_name, WeekLoads[k].lane>> : k \in DOMAIN WeekLoads}
    /\ \A i, j \in DOMAIN lane_risks :
           (/\ lane_risks[i].customer_name = lane_risks[j].customer_name
            /\ lane_risks[i].lane = lane_risks[j].lane) => i = j

\* by customer, and by revenue from high to low within a customer
LaneOrder ==
    \A i, j \in DOMAIN lane_risks :
        i < j =>
            \/ StrLess(lane_risks[i].customer_name.v, lane_risks[j].customer_name.v)
            \/ /\ lane_risks[i].customer_name = lane_risks[j].customer_name
               /\ lane_risks[i].revenue >= lane_risks[j].revenue

\* C20: compute_lane_risks returns one row per (customer, lane) with a load
\* in the selected week; volume is the number of these loads and revenue
\* their sum, no row has volume 0, loads of other weeks add nothing, and the
\* rows are in the order of the customers and, within a customer, of the
\* revenue from high to low.
C20_AsStated ==
    pc = "attributed" =>
        /\ OnePerLane
        /\ \A i \in DOMAIN lane_risks :
               /\ lane_risks[i].volume = Len(LoadsOfLane(lane_risks[i]))
               /\ lane_risks[i].revenue = SumOf(LoadsOfLane(lane_risks[i]), "pricing_total")
               /\ lane_risks[i].volume # 0
        /\ LaneOrder

\* the same with volume as the number of the loads that have an identifier
LaneRisksByIdentifier ==
    pc = "attributed" =>
        /\ OnePerLane
        /\ \A i \in DOMAIN lane_risks :
               /\ lane_risks[i].volume
                      = Len(SelectSeq(LoadsOfLane(lane_risks[i]), LAMBDA l : l.load_id # None))
               /\ lane_risks[i].revenue = SumOf(LoadsOfLane(lane_risks[i]), "pricing_total")
        /\ LaneOrder

\* two lanes of a customer with the one of more revenue first, against the
\* order of the lanes, after a week of other loads
LaneRisksReached ==
    /\ pc = "attributed"
    /\ \E i \in DOMAIN lane_risks :
           /\ i + 1 \in DOMAIN lane_risks
           /\ lane_risks[i].customer_name = lane_risks[i + 1].customer_name
           /\ lane_risks[i].revenue > lane_risks[i + 1].revenue
           /\ StrLess(lane_risks[i + 1].lane, lane_risks[i].lane)
    /\ \E k \in DOMAIN load_df : StrLess(load_df[k].week_start, selected_week)
    /\ Len(WeekLoads) > Len(lane_risks)

-----------------------------------------------------------------------------
(* Properties of the full pipeline (SpecPipe)                               *)

\* the normalizer keeps none of the raw loads: the list is empty, or every
\* load lacks a completion timestamp or has one that is no date
Dropped(ld) ==
    LET completed_at == Or(Or(Get(ld, "loadCompletedAt", None),
                              Get(ld, "loadCompletedDate", None)), Str(<<>>))
    IN  ~Truthy(completed_at) \/ ~Strptime(Prefix(completed_at.v, 10)).ok

AllDropped == \A i \in DOMAIN raw_loads : Dropped(raw_loads[i])

Transformed == pc \in {"transformed", "queried", "repeated"}

\* C21: when the raw list is empty or the normalizer drops every load of it,
\* then with any customer master the cleaned, weekly, monthly and lane tables
\* of transform_loads are empty, and compute_risk_flags and
\* compute_lane_risks on them return empty tables for the week key given;
\* every stage returns.
C21_EmptyInput ==
    AllDropped =>
        /\ Transformed =>
               /\ data.cleaned = <<>> /\ data.weekly = <<>>
               /\ data.monthly = <<>> /\ data.lanes = <<>>
        /\ pc = "queried" => risks.rows = <<>> /\ lane_risks = <<>>

\* two raw loads, both dropped, a master of two customers, and the queries
\* answered
C21_Witness ==
    /\ pc = "queried"
    /\ Len(raw_loads) = 2
    /\ AllDropped
    /\ Len(customer_master) = 2
    /\ data.weekly = <<>> /\ risks.rows = <<>>

InputsKept == [][raw_loads' = raw_loads /\ customer_master' = customer_master]_vars


-----------------------------------------------------------------------------
(* Precedence of the location resolver (SpecLoc)                            *)

\* the comma-separated tokens of an address, stripped
AddressTokens(address) ==
    LET raw == SplitComma(PyStr(address))
    IN  [i \in DOMAIN raw |-> Strip(raw[i])]

\* token i opens with a US state code, white space and five digits
IsStateZip(tokens, i) ==
    /\ StateZipMatch(tokens[i])
    /\ SubSeq(tokens[i], 1, 2) \in US_STATES

\* step 1: the first state token after the first token gives the city before
\* it; the step counts as failed when there is none or the city reads "Unknown"
AddressStep(ld, addressKey, place) ==
    LET address == Get(ld, addressKey, Str(<<>>))
    IN  /\ Truthy(address)
        /\ \E i \in 2..Len(AddressTokens(address)) :
              /\ IsStateZip(AddressTokens(address), i)
              /\ \A j \in 2..(i - 1) : ~IsStateZip(AddressTokens(address), j)
              /\ place = <<Title(AddressTokens(address)[i - 1]),
                           SubSeq(AddressTokens(address)[i], 1, 2)>>
        /\ place[1] # LitUnknown

AddressFails(ld, addressKey) ==
    \A place \in {parse_city_state_from_address(Get(ld, addressKey, Str(<<>>)))} :
        ~AddressStep(ld, addressKey, place)

\* step 2: the name, upper-cased and stripped, is a key of the terminal table
InTable(ld, nameKey) == NormalName(ld, nameKey) \in DOMAIN TERMINAL_CITY_MAP

\* step 3: the text after the first " - " of the name, title-cased, in "CA"
HasSeparator(ld, nameKey) == Contains(LitSep, NormalName(ld, nameKey))

AfterSeparator(ld, nameKey) ==
    <<Title(Strip(AfterFirst(LitSep, NormalName(ld, nameKey)))), LitCA>>

\* the chain of three steps, the second one only where `table` says so; the
\* city is "Unknown" when no step of the chain resolves
Precedence(ld, addressKey, nameKey, table, place) ==
    /\ ~AddressFails(ld, addressKey) => AddressStep(ld, addressKey, place)
    /\ AddressFails(ld, addressKey) /\ table /\ InTable(ld, nameKey)
          => place = TERMINAL_CITY_MAP[NormalName(ld, nameKey)]
    /\ AddressFails(ld, addressKey) /\ ~(table /\ InTable(ld, nameKey))
       /\ HasSeparator(ld, nameKey)
          => place = AfterSeparator(ld, nameKey)
    /\ AddressFails(ld, addressKey) /\ ~(table /\ InTable(ld, nameKey))
       /\ ~HasSeparator(ld, nameKey)
          => place[1] = LitUnknown

\* C23 as stated: pickup and delivery both follow address, then terminal
\* table, then " - " separator, a later step only when every earlier one fails.
C23_AsStated ==
    pc = "resolved" =>
        /\ Precedence(load, "shipperAddress", "shipperName", TRUE, pickup)
        /\ Precedence(load, "consigneeAddress", "consigneeName", TRUE, delivery)

\* C23 (amended): the pickup follows address, then terminal table, then " - "
\* separator; the delivery follows address, then " - " separator, and never
\* consults the terminal table; a later step only when every earlier one
\* fails, an address whose city reads "Unknown" counting as failed.
C23_Precedence ==
    pc = "resolved" =>
        /\ Precedence(load, "shipperAddress", "shipperName", TRUE, pickup)
        /\ Precedence(load, "consigneeAddress", "consigneeName", FALSE, delivery)

\* a terminal name on both sides of a load without a usable address
C23_Witness ==
    /\ pc = "resolved"
    /\ AddressFails(load, "shipperAddress") /\ InTable(load, "shipperName")
    /\ AddressFails(load, "consigneeAddress") /\ InTable(load, "consigneeName")
    /\ Truthy(Get(load, "consigneeAddress", Str(<<>>)))
    /\ pickup = TERMINAL_CITY_MAP[NormalName(load, "shipperName")]
    /\ delivery = <<LitUnknown, LitNoState>>

-----------------------------------------------------------------------------
(* Properties of the tables of one pipeline run (SpecPipe)                  *)

DistinctNames(master) ==
    \A i, j \in DOMAIN master : master[i].name = master[j].name => i = j

RowsNamed(table, name) == SelectSeq(table, LAMBDA r : r.customer_name = name)

MasterNames == {customer_master[i].name : i \in DOMAIN customer_master}

\* the rows of both aggregates are rows of entities of the master
OnlyMasterRows ==
    /\ \A i \in DOMAIN data.weekly : data.weekly[i].customer_name \in MasterNames
    /\ \A i \in DOMAIN data.monthly : data.monthly[i].customer_name \in MasterNames

\* C27 as stated: with distinct master names, for every entity the loads of
\* its weekly rows and the loads of its monthly rows both add up to the number
\* of normalized loads of its name, and the revenues to their revenue; loads
\* of other names are in no row.
C27_AsStated ==
    Transformed /\ DistinctNames(customer_master) =>
        /\ OnlyMasterRows
        /\ \A name \in MasterNames :
              /\ SumOf(RowsNamed(data.weekly, name), "loads")
                    = Len(RowsNamed(data.cleaned, name))
              /\ SumOf(RowsNamed(data.monthly, name), "loads")
                    = Len(RowsNamed(data.cleaned, name))
              /\ SumOf(RowsNamed(data.weekly, name), "revenue")
                    = SumOf(RowsNamed(data.cleaned, name), "pricing_total")
              /\ SumOf(RowsNamed(data.monthly, name), "revenue")
                    = SumOf(RowsNamed(data.cleaned, name), "pricing_total")

\* the normalized loads of a name that carry an identifier
Identified(name) ==
    SelectSeq(RowsNamed(data.cleaned, name), LAMBDA r : r.load_id # None)

\* what is conserved: the revenue, and the number of loads with an identifier
ConservedByIdentifier ==
    Transformed /\ DistinctNames(customer_master) =>
        /\ OnlyMasterRows
        /\ \A name \in MasterNames :
              /\ SumOf(RowsNamed(data.weekly, name), "loads") = Len(Identified(name))
              /\ SumOf(RowsNamed(data.monthly, name), "loads") = Len(Identified(name))
              /\ SumOf(RowsNamed(data.weekly, name), "revenue")
                    = SumOf(RowsNamed(data.cleaned, name), "pricing_total")
              /\ SumOf(RowsNamed(data.monthly, name), "revenue")
                    = SumOf(RowsNamed(data.cleaned, name), "pricing_total")

\* an entity with two loads, one of them without identifier, and one load
\* counted in its rows
ConservedReached ==
    /\ pc = "transformed"
    /\ \E name \in MasterNames :
          /\ Len(RowsNamed(data.cleaned, name)) = 2
          /\ Len(Identified(name)) = 1
          /\ SumOf(RowsNamed(data.weekly, name), "loads") = 1
          /\ SumOf(RowsNamed(data.monthly, name), "revenue") = 400

\* an on-time rate that is 1 or missing
OneOrMissing(rate) == IsNaN(rate) \/ rate = Frac(1, 1)

Carries(o, flag) == Contains(flag, o.risk_flag)

\* the selected week is the earliest week of the weekly table
EarliestSelected ==
    /\ \E i \in DOMAIN data.weekly : data.weekly[i].week_start = selected_week
    /\ \A i \in DOMAIN data.weekly : ~StrLess(data.weekly[i].week_start, selected_week)

\* no risk row carries STALE ACCOUNT with one of the HIGH REVENUE flags, and
\* the rows of the earliest week carry HIGH REVENUE + POOR SERVICE at most
StaleApart ==
    /\ \A i \in DOMAIN risks.rows :
          Carries(risks.rows[i], FlagStale)
              => /\ ~Carries(risks.rows[i], FlagPoorService)
                 /\ ~Carries(risks.rows[i], FlagDeclining)
    /\ EarliestSelected =>
          \A i \in DOMAIN risks.rows : risks.rows[i].risk_flag = FlagPoorService

\* C29 as stated: on the weekly table of the pipeline STALE ACCOUNT never
\* stands in one risk row with HIGH REVENUE + POOR SERVICE or HIGH REVENUE +
\* DECLINING VOLUME, and in the earliest week no rule other than HIGH REVENUE
\* + POOR SERVICE fires.
C29_AsStated == pc = "queried" => StaleApart

\* every normalized load carries an identifier
AllIdentified == \A i \in DOMAIN data.cleaned : data.cleaned[i].load_id # None

\* the statement on load sets in which every load has an identifier
StaleApartIdentified == pc = "queried" /\ AllIdentified => StaleApart

\* a stale row on such a load set
StaleApartReached ==
    /\ pc = "queried"
    /\ AllIdentified
    /\ \E i \in DOMAIN risks.rows :
          Carries(risks.rows[i], FlagStale) /\ risks.rows[i].weekly_revenue = 0

\* a row without loads but with revenue: stale and of high revenue at once
StaleWithRevenue ==
    /\ pc = "queried"
    /\ \E i \in DOMAIN risks.rows :
          /\ Carries(risks.rows[i], FlagStale)
          /\ Carries(risks.rows[i], FlagDeclining)
          /\ risks.rows[i].weekly_loads = 0
          /\ risks.rows[i].weekly_revenue = 100

-----------------------------------------------------------------------------
(* Subsumption among the risk rules (SpecDash)                              *)

\* the emitted row holds 5% of the revenue of the selected week at least
HighShare(o) == WeekRevenue > 0 /\ o.weekly_revenue * 100 >= 5 * WeekRevenue

\* the week right before the selected one among the weeks of the table
IsPrecedingWeek(w) ==
    /\ w \in Weeks
    /\ StrLess(w, selected_week)
    /\ \A x \in Weeks : StrLess(x, selected_week) => ~StrLess(w, x)

\* the entity of row r has no loads in the selected week and had loads in the
\* period right before it
DroppedToZero(r) ==
    /\ r.loads = 0
    /\ \E i \in DOMAIN df :
          /\ df[i].customer_id = r.customer_id
          /\ IsPrecedingWeek(df[i].week_start)
          /\ df[i].loads > 0

\* the emitted row is stale, dropped by 100% and below its trailing average
AllThree(o) ==
    /\ Carries(o, FlagStale)
    /\ Carries(o, FlagSharpDrop)
    /\ Carries(o, FlagBelowAvg)
    /\ o.wow_change_pct = Dec1(-1000)

Subsumption ==
    /\ \A i \in DOMAIN risks.rows :
          Carries(risks.rows[i], FlagSharpDrop) /\ HighShare(risks.rows[i])
              => Carries(risks.rows[i], FlagDeclining)
    /\ \A n \in CurrentNames :
          CountRows(risks.rows, LAMBDA o : o.customer_name = n /\ AllThree(o))
              >= CountRows(risks.current, LAMBDA r : r.customer_name = n /\ DroppedToZero(r))

\* C30 as stated: a risk row with SHARP WOW DROP and a revenue share of 5 at
\* least carries HIGH REVENUE + DECLINING VOLUME; every entity without loads
\* in the selected week and with loads in the period right before it has a
\* row with STALE ACCOUNT, SHARP WOW DROP at a change of -100 and BELOW
\* TRAILING AVERAGE.
C30_AsStated == pc = "flagged" => Subsumption

\* the statement for masters whose customer names are distinct
SubsumptionDistinct == pc = "flagged" /\ DistinctNames(customer_master) => Subsumption

\* a row that dropped sharply, not to zero, at a high share
SharpAtHighShare ==
    /\ pc = "flagged"
    /\ DistinctNames(customer_master)
    /\ \E i \in DOMAIN risks.rows :
          /\ Carries(risks.rows[i], FlagSharpDrop)
          /\ Carries(risks.rows[i], FlagDeclining)
          /\ HighShare(risks.rows[i])
          /\ risks.rows[i].weekly_loads > 0

\* a customer that dropped to zero, under distinct names
SubsumptionReached ==
    /\ pc = "flagged"
    /\ DistinctNames(customer_master)
    /\ \E i \in DOMAIN risks.current : DroppedToZero(risks.current[i])
    /\ \E i \in DOMAIN risks.rows : AllThree(risks.rows[i])

\* of two customers of one name that dropped to zero, one has no sharp drop
SubsumptionSplit ==
    /\ pc = "flagged"
    /\ ~DistinctNames(customer_master)
    /\ \A i \in DOMAIN risks.current : DroppedToZero(risks.current[i])
    /\ \E i \in DOMAIN risks.rows : ~Carries(risks.rows[i], FlagSharpDrop)
    /\ \E i \in DOMAIN risks.rows : AllThree(risks.rows[i])

-----------------------------------------------------------------------------
(* Properties of the API client (SpecApi)                                   *)

\* the exchanges of the running or last _request that are of one kind
Exchanges(kind) == {i \in DOMAIN sent : sent[i].kind = kind}

\* a _request is between its first answer and its return or raise
InRequest == pc \in {"refreshing", "reissuing"}

\* two exchanges carry the same method, URL, params and body
SameRequest(a, b) ==
    /\ a.method = b.method /\ a.url = b.url
    /\ a.params = b.params /\ a.json = b.json

\* the client holds the access token and the config file the call found
AsOnEntry ==
    /\ access_token = call.token
    /\ authorization = Bearer(call.token)
    /\ config_file = call.file

\* C24: one call of _request sends at most two data requests and one refresh;
\* after a 401 with a refresh token it refreshes once and, the refresh
\* succeeding, sends the same method, URL, params and body once more under the
\* new access token; a second 401 is raised; a failed refresh raises with the
\* access token and the config file as they were.
C24_RetryOnce ==
    call # <<>> =>
        /\ Cardinality(Exchanges("data")) <= 2
        /\ Cardinality(Exchanges("refresh")) <= 1
        /\ sent[1] = DataRequest(call, Bearer(call.token), sent[1].status)
        /\ Len(sent) = 1 /\ ~InRequest => AsOnEntry
        /\ Len(sent) >= 2 =>
              /\ sent[1].status = 401 /\ refresh_token # ""
              /\ sent[2].kind = "refresh"
              /\ sent[2].auth = Bearer(refresh_token)
        /\ sent[1].status = 401 /\ refresh_token # "" /\ ~InRequest =>
              /\ Len(sent) >= 2
              /\ \/ pc = "raised"
                 \/ Len(sent) = 3 /\ ~RaisesForStatus(sent[3].status)
        /\ Len(sent) = 2 /\ ~InRequest =>
              /\ RaisesForStatus(sent[2].status)
              /\ pc = "raised"
              /\ AsOnEntry
        /\ Len(sent) = 2 /\ InRequest =>
              /\ ~RaisesForStatus(sent[2].status)
              /\ pc = "reissuing"
        /\ Len(sent) = 3 =>
              /\ ~RaisesForStatus(sent[2].status)
              /\ sent[3].kind = "data"
              /\ SameRequest(sent[3], sent[1])
              /\ access_token = TokenOf(sent[2].answer)
              /\ sent[3].auth = Bearer(access_token)
              /\ sent[3].status = 401 => pc = "raised"

\* a call that got 401, refreshed, saved the new token and got 401 again
C24_Witness ==
    /\ pc = "raised"
    /\ Len(sent) = 3
    /\ sent[3].status = 401
    /\ sent[1].auth = Bearer("t0")
    /\ sent[3].auth = Bearer("t1")
    /\ config_file = [access_token |-> "t1", refresh_token |-> "r0"]
    /\ call.file = NoFile
    /\ call.caller = "get_loads" /\ call.params.skip > 0

\* a call whose refresh failed
C24_RefreshFailed ==
    /\ pc = "raised"
    /\ Len(sent) = 2
    /\ sent[2].status = 500
    /\ access_token = "t0"

\* get_all_loads has returned its list
LoadsReturned ==
    \/ pc \in {"loaded", "done"}
    \/ call # <<>> /\ call.caller = "get_customers"

\* C25 as stated: for any page_size >= 1 get_all_loads returns all the loads
\* of the server, each once and in server order, and stops only once an empty
\* page is returned.
C25_AsStated ==
    LoadsReturned /\ page_size >= 1 =>
        /\ all_loads = server.loads
        /\ pages[Len(pages)].got = 0

\* what holds of the list returned: it is a prefix of the server's loads, and
\* all of them when page_size does not exceed the page cap of the server
ReturnedWithinCap ==
    LoadsReturned =>
        /\ Len(all_loads) <= Len(server.loads)
        /\ all_loads = SubSeq(server.loads, 1, Len(all_loads))
        /\ page_size \in 1..server.cap => all_loads = server.loads

\* a first page cut by the page cap ends the loop with loads left on the server
ReturnedShort ==
    /\ pc = "done"
    /\ page_size > server.cap
    /\ Len(pages) = 1
    /\ Len(all_loads) = server.cap
    /\ Len(server.loads) > server.cap

\* page i of the log has been answered with a full, non-empty page
FullPage(i) == pages[i].got = page_size /\ pages[i].got > 0

\* before every get_loads call skip is the number of loads accumulated and is
\* above the skip of the call before; a call is made only when all calls
\* before it were answered by full pages; the loop is over as soon as a page
\* is empty or shorter than page_size
PagingOrder ==
    /\ \A i \in DOMAIN pages :
          /\ pages[i].limit = page_size
          /\ pages[i].skip = pages[i].held
          /\ i > 1 => pages[i].skip > pages[i - 1].skip /\ FullPage(i - 1)
    /\ pc = "paging" /\ pages # <<>> => FullPage(Len(pages))
    /\ pages # <<>> /\ pages[Len(pages)].got >= 0 /\ ~FullPage(Len(pages))
          => LoadsReturned
    /\ pc = "paging" => skip = Len(all_loads)

\* get_all_loads has returned or raised
PagingOver == LoadsReturned \/ pc = "raised"

=============================================================================
